---- MODULE Spec2Model ----
(***************************************************************************)
(* Model of the Scam Shield pipeline orchestrator                          *)
(* (backend/app/pipeline.py), its stage agents (backend/app/agents) and    *)
(* the chat routes that write the pipeline state (backend/app/api).        *)
(*                                                                         *)
(* An orchestrator method that awaits a stage agent is two steps: the      *)
(* writes made before the await (phase "run") and the writes made when     *)
(* the agent's result arrives (phase "ret"); a method that raises before   *)
(* its first await, or has no await, goes to "ret" in one step.  The       *)
(* caller then takes the result (Ack) and the orchestrator is idle again.  *)
(***************************************************************************)
EXTENDS Integers, Sequences, FiniteSets, TLC

VARIABLES
    state,   \* PipelineOrchestrator._state : a PipelineState, or Null
    agent,   \* PipelineOrchestrator.visual_audio_agent._state
    heap,    \* the scene dictionaries of director outputs, by object id
    held,    \* a result a caller kept, with the call and the content as returned
    pc,      \* the call in progress, or the result just returned
    err,     \* the error handed to _is_retryable, and its verdict
    call     \* the transport, polling or streaming helper in execution, or Null

vars == <<state, agent, heap, held, pc, err, call>>

---------------------------------------------------------------------------
(* Bounds of the model *)

\* number of distinct values a generated text field takes
MaxContent == 2
\* scenes in a generated script
NumScenes == 1
\* projects (video inputs) a caller asks video assets for
MaxProjects == 1
\* character roles of a story
NumChars == 1
\* segments of a Veo script
NumSegments == 1

\* upper-case characters in an error message written in mixed case
MaxUpper == 2

\* operations.get calls of one video generation that are counted
MaxVeoPolls == 40

\* events of a backend stream before its end
MaxStream == 3

\* sessions in the registry
MaxSessions == 2

\* /video-assets requests the server takes
MaxRequests == 2

\* entries of a session's chat log
MaxChat == 4

\* characters in a string value of a model's JSON output
MaxStr == 2

\* flags in a compliance answer
MaxFlags == 1

---------------------------------------------------------------------------
(* Values *)

\* Python's None, for an optional object
Null == [null |-> TRUE]

\* schemas.PipelineStatus
PENDING == "pending"
IN_PROGRESS == "in_progress"
COMPLETED == "completed"
FAILED == "failed"
AWAITING_REVIEW == "awaiting_review"

PipelineStatus == {PENDING, IN_PROGRESS, COMPLETED, FAILED, AWAITING_REVIEW}

Contents == 1 .. MaxContent

\* datetime.utcnow(): some timestamp, never None (0 stands for None)
utcnow == 1

\* BaseModel.model_copy(update=...): a new object, the given fields replaced
model_copy(obj, update) ==
    [k \in DOMAIN obj |-> IF k \in DOMAIN update THEN update[k] ELSE obj[k]]

\* schemas.FactSheet as produced by the research stage; scam_name stands for
\* the text fields (scam_name, story_hook, red_flag, the_fix, ...)
FactSheet(c) ==
    [scam_name |-> c,
     verified_by_officer |-> FALSE,
     verification_timestamp |-> 0,
     officer_notes |-> 0]

\* FactSheet.verify: officer_id is accepted and not stored
verify(fs, officer_id, notes) ==
    model_copy(fs, [verified_by_officer |-> TRUE,
                    verification_timestamp |-> utcnow,
                    officer_notes |-> notes])

\* schemas.PipelineState as constructed (all defaults)
PipelineState ==
    [intake |-> 0,
     intake_status |-> PENDING,
     fact_sheet |-> Null,
     fact_sheet_status |-> PENDING,
     scam_report |-> Null,
     creator_config |-> 0,
     director_output |-> Null,
     director_status |-> PENDING,
     linguistic_output |-> Null,
     linguistic_status |-> PENDING,
     sensitivity_output |-> Null,
     sensitivity_status |-> PENDING,
     video_package |-> Null,
     visual_audio |-> Null,
     visual_audio_status |-> PENDING,
     social_output |-> Null,
     social_status |-> PENDING,
     chat_history |-> <<>>,
     created_at |-> utcnow,
     updated_at |-> utcnow]

\* PipelineState.update_status: a copy with the stage's status and a new
\* updated_at (no caller in the repository)
update_status(st, stage_status, status, now) ==
    model_copy(st, [f \in {stage_status, "updated_at"} |->
                       IF f = "updated_at" THEN now ELSE status])

\* agents.base.AgentResult
AgentResult(success, output, error, calls) ==
    [success |-> success, output |-> output, error |-> error, calls |-> calls]

---------------------------------------------------------------------------
(* The call in progress *)

Idle == [phase |-> "idle"]

\* the status field each stage operation reports in
StatusField ==
    [process_intake |-> "intake_status",
     verify_fact_sheet |-> "fact_sheet_status",
     generate_script |-> "director_status",
     generate_translations |-> "linguistic_status",
     check_sensitivity |-> "sensitivity_status",
     generate_video_assets |-> "visual_audio_status",
     generate_video_assets_stepwise |-> "visual_audio_status",
     generate_social_strategy |-> "social_status"]

\* the status the invoked stage had when the call was made
Prior(st, op) ==
    IF st = Null \/ op \notin DOMAIN StatusField THEN "none" ELSE st[StatusField[op]]

\* prior: Prior at the time of the call
Running(op, args, prior) ==
    [phase |-> "run", op |-> op, args |-> args, prior |-> prior]

\* outcome: "ok", or the exception raised; calls: backend calls issued
Returned(op, args, prior, outcome, error, ret, calls) ==
    [phase |-> "ret", op |-> op, args |-> args, prior |-> prior,
     outcome |-> outcome, error |-> error, ret |-> ret, calls |-> calls]

---------------------------------------------------------------------------
(* The heap of scene dictionaries *)

ObjIds == 1 .. (2 * NumScenes)

\* schemas.DirectorOutput; scene_breakdown is a list of references to dicts
DirectorOutput(c, scenes) == [master_script |-> c, scene_breakdown |-> scenes]

Range(seq) == {seq[i] : i \in DOMAIN seq}

\* the dictionaries an optional director output refers to
Refs(d) == IF "scene_breakdown" \in DOMAIN d THEN Range(d.scene_breakdown) ELSE {}

\* the ids of n new dictionaries, none of them in use
RECURSIVE NewIds(_, _)
NewIds(used, n) ==
    IF n = 0 THEN <<>>
    ELSE LET i == CHOOSE j \in ObjIds \ used : \A k \in ObjIds \ used : j <= k
         IN <<i>> \o NewIds(used \cup {i}, n - 1)

\* the heap with the dictionaries of ids set to content c
Store(h, ids, c) == [i \in ObjIds |-> IF i \in Range(ids) THEN c ELSE h[i]]

\* unreachable dictionaries are collected
Collect(h, live) == [i \in ObjIds |-> IF i \in live THEN h[i] ELSE 0]

\* a director output with the dictionaries' contents in place of references
\* (what json.dumps / model_dump / == see)
Dump(d, h) ==
    IF d = Null THEN Null
    ELSE [master_script |-> d.master_script,
          scene_breakdown |-> [i \in DOMAIN d.scene_breakdown |-> h[d.scene_breakdown[i]]]]

---------------------------------------------------------------------------
(* Stage agents: process() as a function of what the backend answers *)

\* what one backend call of a text stage ends in: valid JSON, text that
\* does not parse (ValueError from parse_response), or an API error
Outcomes == {"ok", "malformed", "error"}

\* max_retries of DirectorAgent.process and SocialOfficerAgent.process
max_retries == 2

\* range(max_retries + 1): the attempts of one process() call
StageAttempts == max_retries + 1

\* the retry loop of DirectorAgent.process and SocialOfficerAgent.process:
\* outs[i] is the outcome of the backend call of attempt i
RECURSIVE retry_loop(_, _)
retry_loop(outs, attempt) ==
    CASE outs[attempt] = "ok" -> [success |-> TRUE, error |-> "", calls |-> attempt]
      [] outs[attempt] = "malformed" ->
            IF attempt < StageAttempts
            THEN retry_loop(outs, attempt + 1)
            ELSE [success |-> FALSE, error |-> "ExtractionFailure", calls |-> attempt]
      [] OTHER -> [success |-> FALSE, error |-> "BackendError", calls |-> attempt]

\* DirectorAgent.process: the fact sheet must be verified, then the loop;
\* output is what a successful attempt parses to
DirectorProcess(fact_sheet, outs, output) ==
    IF ~fact_sheet.verified_by_officer
    THEN AgentResult(FALSE, Null, "PreconditionError", 0)
    ELSE LET r == retry_loop(outs, 1)
         IN AgentResult(r.success, IF r.success THEN output ELSE Null, r.error, r.calls)

\* ResearchAgent.process, LinguisticAgent.process, SensitivityCheckAgent.process:
\* one backend call, every exception turned into success = false
SingleCallProcess(out, output) ==
    IF out = "ok"
    THEN AgentResult(TRUE, output, "", 1)
    ELSE AgentResult(FALSE, Null, IF out = "malformed" THEN "ExtractionFailure" ELSE "BackendError", 1)

---------------------------------------------------------------------------
(* Arguments a caller can pass *)

Intakes == {1}
Officers == {1, 2}
Notes == {0, 1}
Configs == {1}

\* fact sheets a caller can hold without asking this state: one it built or
\* was handed by an earlier session, unverified or verified
ExternalFacts == {FactSheet(1), verify(FactSheet(1), 1, 0)}

FactArgs ==
    ExternalFacts \cup (IF state # Null /\ state.fact_sheet # Null THEN {state.fact_sheet} ELSE {})

\* corrections of verify_fact_sheet: None, or a dict with one field
Corrections == {Null} \cup {[scam_name |-> c] : c \in 2 .. MaxContent}

\* director outputs are passed to the later stages by content
ExternalDirector == [master_script |-> 1, scene_breakdown |-> [i \in 1 .. NumScenes |-> 1]]

DirectorArgs ==
    {ExternalDirector} \cup
    (IF state # Null /\ state.director_output # Null THEN {Dump(state.director_output, heap)} ELSE {})

\* what the garbage collector keeps: the dictionaries of the output in the
\* state, of the output a caller kept, and of the value being returned
Live(st, h, ret) ==
    (IF st = Null THEN {} ELSE Refs(st.director_output))
        \cup (IF h = Null THEN {} ELSE Refs(h.obj))
        \cup Refs(ret)

---------------------------------------------------------------------------
(* PipelineOrchestrator: sessions, intake, verification *)

\* new_session: a fresh PipelineState replaces the current one (its
\* session_id, a uuid4, is not modelled)
new_session == PipelineState

NewSession ==
    /\ pc = Idle
    /\ state' = new_session
    /\ pc' = Returned("new_session", Null, "none", "ok", "", Null, 0)
    /\ heap' = Collect(heap, Live(state', held, Null))
    /\ UNCHANGED <<agent, held, err, call>>

\* process_intake up to the await of the research agent
process_intake_begin(st, intake) ==
    LET s0 == IF st = Null THEN new_session ELSE st
    IN [s0 EXCEPT !.intake = intake, !.intake_status = IN_PROGRESS]

\* process_intake from the agent's result on
process_intake_end(st, result) ==
    IF ~result.success
    THEN [st EXCEPT !.intake_status = FAILED]
    ELSE [st EXCEPT !.fact_sheet = result.output,
                    !.intake_status = COMPLETED,
                    !.fact_sheet_status = AWAITING_REVIEW]

ProcessIntakeCall ==
    /\ pc = Idle
    /\ \E intake \in Intakes :
          /\ state' = process_intake_begin(state, intake)
          /\ pc' = Running("process_intake", [intake |-> intake],
                           Prior(state, "process_intake"))
    /\ UNCHANGED <<agent, heap, held, err, call>>

ProcessIntakeReturn ==
    /\ pc.phase = "run" /\ pc.op = "process_intake"
    /\ \E out \in Outcomes, c \in {1} :
          LET result == SingleCallProcess(out, FactSheet(c))
          IN /\ state' = process_intake_end(state, result)
             /\ pc' = Returned(pc.op, pc.args, pc.prior,
                               IF result.success THEN "ok" ELSE "RuntimeError",
                               result.error, result.output, result.calls)
    /\ UNCHANGED <<agent, heap, held, err, call>>

\* verify_fact_sheet's writes to the state
verify_fact_sheet_commit(st, verified) ==
    IF st # Null
    THEN [st EXCEPT !.fact_sheet = verified, !.fact_sheet_status = COMPLETED]
    ELSE st

\* the record verify_fact_sheet returns
verify_fact_sheet(fact_sheet, officer_id, notes, corrections) ==
    LET corrected == IF corrections # Null THEN model_copy(fact_sheet, corrections) ELSE fact_sheet
    IN verify(corrected, officer_id, notes)

\* verify_fact_sheet with the officer, notes and corrections drawn from the
\* given sets
VerifyFactSheetWith(OfficerArgs, NotesArgs, CorrectionArgs) ==
    /\ pc = Idle
    /\ \E fs \in FactArgs, officer_id \in OfficerArgs, notes \in NotesArgs, corrections \in CorrectionArgs :
          LET verified == verify_fact_sheet(fs, officer_id, notes, corrections)
          IN /\ state' = verify_fact_sheet_commit(state, verified)
             /\ pc' = Returned("verify_fact_sheet",
                               [fact_sheet |-> fs, officer_id |-> officer_id,
                                notes |-> notes, corrections |-> corrections],
                               Prior(state, "verify_fact_sheet"),
                               "ok", "", verified, 0)
    /\ UNCHANGED <<agent, heap, held, err, call>>

\* verification by one officer, without notes or corrections
VerifyFactSheet == VerifyFactSheetWith({1}, {0}, {Null})

\* verification by any officer, with or without notes and corrections
VerifyFactSheetAny == VerifyFactSheetWith(Officers, Notes, Corrections)

\* the caller takes the result
Ack ==
    /\ pc.phase = "ret"
    /\ pc' = Idle
    /\ heap' = Collect(heap, Live(state, held, Null))
    /\ UNCHANGED <<state, agent, held, err, call>>

---------------------------------------------------------------------------
(* PipelineOrchestrator: script, translations, sensitivity check *)

\* generate_script up to the await of the director agent
generate_script_begin(st, creator_config) ==
    IF st # Null
    THEN [st EXCEPT !.creator_config = creator_config, !.director_status = IN_PROGRESS]
    ELSE st

\* generate_script from the agent's result on
generate_script_end(st, result) ==
    IF st = Null THEN st
    ELSE IF ~result.success
    THEN [st EXCEPT !.director_status = FAILED]
    ELSE [st EXCEPT !.director_output = result.output, !.director_status = COMPLETED]

\* seeded fault: a generate_script that accepts every fact sheet
generate_script_ungated(fact_sheet) == TRUE

\* the guard of generate_script (pipeline.py:303)
generate_script_allowed(fact_sheet) == fact_sheet.verified_by_officer

GenerateScriptCall ==
    /\ pc = Idle
    /\ \E fs \in FactArgs, creator_config \in Configs :
          LET args == [fact_sheet |-> fs, creator_config |-> creator_config]
          IN IF ~generate_script_allowed(fs)
             THEN /\ pc' = Returned("generate_script", args,
                                    Prior(state, "generate_script"),
                                    "ValueError", "PreconditionError", Null, 0)
                  /\ UNCHANGED state
             ELSE /\ state' = generate_script_begin(state, creator_config)
                  /\ pc' = Running("generate_script", args,
                                   Prior(state, "generate_script"))
    /\ UNCHANGED <<agent, heap, held, err, call>>

GenerateScriptReturn ==
    /\ pc.phase = "run" /\ pc.op = "generate_script"
    /\ \E outs \in [1 .. StageAttempts -> Outcomes], c \in {1} :
          LET ids == NewIds(Refs(IF held = Null THEN Null ELSE held.obj), NumScenes)
              result == DirectorProcess(pc.args.fact_sheet, outs, DirectorOutput(c, ids))
          IN /\ state' = generate_script_end(state, result)
             /\ pc' = Returned(pc.op, pc.args, pc.prior,
                               IF result.success THEN "ok" ELSE "RuntimeError",
                               result.error, result.output, result.calls)
             /\ heap' = Collect(IF result.success THEN Store(heap, ids, c) ELSE heap,
                                Live(state', held, result.output))
    /\ UNCHANGED <<agent, held, err, call>>

\* LinguisticAgent.process: no backend call when no target language differs
\* from the primary one
LinguisticProcess(translate, out, output) ==
    IF ~translate THEN AgentResult(TRUE, output, "", 0) ELSE SingleCallProcess(out, output)

generate_translations_begin(st) ==
    IF st # Null THEN [st EXCEPT !.linguistic_status = IN_PROGRESS] ELSE st

\* seeded fault: a failing translation stage that rolls the script stage back
generate_translations_end_rollback(st, result) ==
    IF st = Null THEN st
    ELSE IF ~result.success
    THEN [st EXCEPT !.linguistic_status = FAILED,
                    !.director_output = Null, !.director_status = PENDING]
    ELSE [st EXCEPT !.linguistic_output = result.output, !.linguistic_status = COMPLETED]

generate_translations_end(st, result) ==
    IF st = Null THEN st
    ELSE IF ~result.success
    THEN [st EXCEPT !.linguistic_status = FAILED]
    ELSE [st EXCEPT !.linguistic_output = result.output, !.linguistic_status = COMPLETED]

\* schemas.LinguisticOutput for a script: the scenes per language
LinguisticOutput(d) == [translations |-> d.scene_breakdown]

GenerateTranslationsCall ==
    /\ pc = Idle
    /\ \E d \in DirectorArgs, translate \in BOOLEAN :
          /\ state' = generate_translations_begin(state)
          /\ pc' = Running("generate_translations",
                           [director_output |-> d, translate |-> translate],
                           Prior(state, "generate_translations"))
    /\ UNCHANGED <<agent, heap, held, err, call>>

GenerateTranslationsReturn ==
    /\ pc.phase = "run" /\ pc.op = "generate_translations"
    /\ \E out \in Outcomes :
          LET result == LinguisticProcess(pc.args.translate, out,
                                          LinguisticOutput(pc.args.director_output))
          IN /\ state' = generate_translations_end(state, result)
             /\ pc' = Returned(pc.op, pc.args, pc.prior,
                               IF result.success THEN "ok" ELSE "RuntimeError",
                               result.error, result.output, result.calls)
    /\ UNCHANGED <<agent, heap, held, err, call>>

check_sensitivity_begin(st) ==
    IF st # Null THEN [st EXCEPT !.sensitivity_status = IN_PROGRESS] ELSE st

\* seeded fault: the status of a successful check without its report
check_sensitivity_end_unstored(st, result) ==
    IF st = Null THEN st
    ELSE IF ~result.success
    THEN [st EXCEPT !.sensitivity_status = FAILED]
    ELSE [st EXCEPT !.sensitivity_status = COMPLETED]

check_sensitivity_end(st, result) ==
    IF st = Null THEN st
    ELSE IF ~result.success
    THEN [st EXCEPT !.sensitivity_status = FAILED]
    ELSE [st EXCEPT !.sensitivity_output = result.output, !.sensitivity_status = COMPLETED]

\* schemas.SensitivityCheckOutput
SensitivityCheckOutput(passed) == [passed |-> passed]

CheckSensitivityCall ==
    /\ pc = Idle
    /\ state' = check_sensitivity_begin(state)
    /\ pc' = Running("check_sensitivity", Null, Prior(state, "check_sensitivity"))
    /\ UNCHANGED <<agent, heap, held, err, call>>

CheckSensitivityReturn ==
    /\ pc.phase = "run" /\ pc.op = "check_sensitivity"
    /\ \E out \in Outcomes, passed \in BOOLEAN :
          LET result == SingleCallProcess(out, SensitivityCheckOutput(passed))
          IN /\ state' = check_sensitivity_end(state, result)
             /\ pc' = Returned(pc.op, pc.args, pc.prior,
                               IF result.success THEN "ok" ELSE "RuntimeError",
                               result.error, result.output, result.calls)
    /\ UNCHANGED <<agent, heap, held, err, call>>

---------------------------------------------------------------------------
(* PipelineOrchestrator: video package, social strategy *)

\* schemas.ScamReport built from a fact sheet
ScamReport(fact_sheet) == [title |-> fact_sheet.scam_name]

\* schemas.MultiLanguageVideoPackage: every video input carries the fact
\* sheet and sensitivity_output.passed
MultiLanguageVideoPackage(fact_sheet, sensitivity_output) ==
    [scam_report |-> ScamReport(fact_sheet),
     sensitivity_cleared |-> sensitivity_output.passed]

\* create_scam_report's write to the state
create_scam_report(st, fact_sheet) ==
    IF st # Null THEN [st EXCEPT !.scam_report = ScamReport(fact_sheet)] ELSE st

\* assemble_video_package's writes to the state (after create_scam_report)
assemble_video_package(st, fact_sheet, sensitivity_output) ==
    IF st # Null
    THEN [create_scam_report(st, fact_sheet) EXCEPT
             !.video_package = MultiLanguageVideoPackage(fact_sheet, sensitivity_output)]
    ELSE st

\* sensitivity reports a caller can pass
SensitivityArgs == {SensitivityCheckOutput(passed) : passed \in BOOLEAN}

AssembleVideoPackage ==
    /\ pc = Idle
    /\ \E fs \in FactArgs, sens \in SensitivityArgs :
          LET args == [fact_sheet |-> fs, sensitivity_output |-> sens]
          IN IF ~fs.verified_by_officer
             THEN /\ pc' = Returned("assemble_video_package", args, "none",
                                    "ValueError", "PreconditionError", Null, 0)
                  /\ UNCHANGED state
             ELSE /\ state' = assemble_video_package(state, fs, sens)
                  /\ pc' = Returned("assemble_video_package", args, "none", "ok", "",
                                    MultiLanguageVideoPackage(fs, sens), 0)
    /\ UNCHANGED <<agent, heap, held, err, call>>

\* SocialOfficerAgent.process: the retry loop, no precondition of its own
SocialProcess(outs, output) ==
    LET r == retry_loop(outs, 1)
    IN AgentResult(r.success, IF r.success THEN output ELSE Null, r.error, r.calls)

\* schemas.SocialOfficerOutput for a script
SocialOfficerOutput(d) == [captions |-> d.master_script]

\* the four guards of generate_social_strategy (pipeline.py:783-790)
generate_social_strategy_allowed(st) ==
    IF st = Null THEN FALSE
    ELSE st.director_output # Null /\ st.fact_sheet # Null /\ st.creator_config # 0

generate_social_strategy_begin(st) == [st EXCEPT !.social_status = IN_PROGRESS]

\* seeded fault: a social stage that reports FAILED as COMPLETED
generate_social_strategy_end_stuck(st, result) ==
    IF ~result.success
    THEN [st EXCEPT !.social_status = FAILED]
    ELSE [st EXCEPT !.social_output = result.output, !.social_status = FAILED]

generate_social_strategy_end(st, result) ==
    IF ~result.success
    THEN [st EXCEPT !.social_status = FAILED]
    ELSE [st EXCEPT !.social_output = result.output, !.social_status = COMPLETED]

GenerateSocialStrategyCall ==
    /\ pc = Idle
    /\ IF ~generate_social_strategy_allowed(state)
       THEN /\ pc' = Returned("generate_social_strategy", Null,
                              Prior(state, "generate_social_strategy"),
                              "ValueError", "PreconditionError", Null, 0)
            /\ UNCHANGED state
       ELSE /\ state' = generate_social_strategy_begin(state)
            /\ pc' = Running("generate_social_strategy", Null,
                             Prior(state, "generate_social_strategy"))
    /\ UNCHANGED <<agent, heap, held, err, call>>

GenerateSocialStrategyReturn ==
    /\ pc.phase = "run" /\ pc.op = "generate_social_strategy"
    /\ \E outs \in [1 .. StageAttempts -> Outcomes] :
          LET result == SocialProcess(outs, SocialOfficerOutput(state.director_output))
          IN /\ state' = generate_social_strategy_end(state, result)
             /\ pc' = Returned(pc.op, pc.args, pc.prior,
                               IF result.success THEN "ok" ELSE "RuntimeError",
                               result.error, result.output, result.calls)
    /\ UNCHANGED <<agent, heap, held, err, call>>

---------------------------------------------------------------------------
(* VisualAudioAgent and the two orchestrator methods that drive it *)

Projects == 1 .. MaxProjects
Roles == 1 .. NumChars
Segments == 1 .. NumSegments
Frames == Segments \X {"start", "end"}

\* schemas.VisualAudioPipelineState as constructed; 0 stands for None, the
\* lists are kept as the sets of their entries
VisualAudioPipelineState ==
    [obfuscated_story |-> 0,
     veo_script |-> 0,
     character_descriptions |-> 0,
     character_ref_images |-> {},
     clip_ref_images |-> {},
     veo_clips |-> {},
     output_dir |-> 0]

\* state.visual_audio is None or the agent's own _state object
\* (agent.state returns self._state, pipeline.py:605, 753, 763)
AgentRef == [ref |-> "visual_audio_agent._state"]

\* what state.visual_audio shows when read
VisualAudio(st, a) ==
    IF st = Null THEN Null
    ELSE IF st.visual_audio = Null THEN Null ELSE a

\* the sub-stages in order, and the index of a stop_after value
StageNames == <<"story", "script", "characters", "char_refs", "clip_refs", "veo_clips">>
NumStages == Len(StageNames)
StopAfterArgs == {"story", "script", "characters", "char_refs", "clip_refs", "none"}
StopIndex(stop_after) ==
    IF stop_after = "none" THEN NumStages
    ELSE CHOOSE k \in 1 .. NumStages : StageNames[k] = stop_after

\* the file a sub-stage saves for an item under the request's base_dir
Path(project_id, kind, item) == [dir |-> project_id, kind |-> kind, item |-> item]

\* the entries a sub-stage records for the items it saved
CharacterRefImages(project_id, imgs) ==
    {[role |-> r, path |-> Path(project_id, "character_refs", r)] : r \in imgs}
ClipRefEntries(project_id, frames) ==
    {[segment_index |-> f[1], frame |-> f[2], path |-> Path(project_id, "clip_refs", f)] : f \in frames}
VeoClipEntries(project_id, clips) ==
    {[segment_index |-> g, path |-> Path(project_id, "veo_clips", g)] : g \in clips}

\* the agent's state after sub-stage k has generated its output for a
\* request of project_id (expand_to_story ... generate_veo_clips)
Generate(a, k, project_id, d) ==
    CASE k = 1 -> [a EXCEPT !.obfuscated_story = project_id]
      [] k = 2 -> [a EXCEPT !.veo_script = project_id]
      [] k = 3 -> [a EXCEPT !.character_descriptions = project_id]
      [] k = 4 -> [a EXCEPT !.character_ref_images = CharacterRefImages(project_id, d.imgs)]
      [] k = 5 -> [a EXCEPT !.clip_ref_images = ClipRefEntries(project_id, d.frames)]
      [] OTHER -> [a EXCEPT !.veo_clips = VeoClipEntries(project_id, d.clips)]

\* seeded fault: no sub-stage output is ever found
has_nothing(a, k) == FALSE

\* has_story ... has_clip_refs (pipeline.py:666-670); the video sub-stage
\* has no such check
Has(a, k) ==
    CASE k = 1 -> a.obfuscated_story # 0
      [] k = 2 -> a.veo_script # 0
      [] k = 3 -> a.character_descriptions # 0
      [] k = 4 -> a.character_ref_images # {}
      [] k = 5 -> a.clip_ref_images # {}
      [] OTHER -> FALSE

\* sub-stage k generates when it is reached: it is within stop, and not
\* skipped for an output that is there
Generates(a, k, stop, reuse) == k <= stop /\ ~(reuse /\ Has(a, k))

\* what the backend delivers to the calls of one invocation: the sub-stage
\* that raises (0: none; the video sub-stage turns its errors into missing
\* clips), and the images, frames and clips the image and video calls
\* return; nothing is delivered to a sub-stage that makes no call
Deliveries(a, stop, reuse) ==
    {d \in [fail : 0 .. (NumStages - 1), imgs : SUBSET Roles,
            frames : SUBSET Frames, clips : SUBSET Segments] :
        LET answered(k) == Generates(a, k, stop, reuse) /\ (d.fail = 0 \/ d.fail > k)
        IN /\ d.fail # 0 => Generates(a, d.fail, stop, reuse)
           /\ ~answered(4) => d.imgs = {}
           /\ ~answered(5) => d.frames = {}
           /\ ~answered(6) => d.clips = {}}

\* sub-stages k .. stop in order, on agent state a: a
\* sub-stage is skipped when reuse is on and its output is there, raises
\* when the backend fails it, and otherwise records its output; issued is
\* the set of sub-stages whose generation was started
RECURSIVE RunStages(_, _, _, _, _, _, _)
RunStages(a, k, stop, reuse, project_id, d, issued) ==
    IF k > stop
    THEN [agent |-> a, issued |-> issued, raised |-> FALSE]
    ELSE IF reuse /\ Has(a, k)
    THEN RunStages(a, k + 1, stop, reuse, project_id, d, issued)
    ELSE IF d.fail = k
    THEN [agent |-> a, issued |-> issued \cup {k}, raised |-> TRUE]
    ELSE RunStages(Generate(a, k, project_id, d),
                   k + 1, stop, reuse, project_id, d, issued \cup {k})

\* video inputs a caller can pass: a project, with or without its fact sheet
VideoInputs == [project_id : Projects, fact_sheet_reference : BOOLEAN]

\* the result record of a visual/audio method: issued as above
VAReturned(op, args, prior, outcome, error, ret, issued) ==
    Returned(op, args, prior, outcome, error, ret, Cardinality(issued)) @@ [issued |-> issued]

\* generate_video_assets_stepwise, lines 644-656: the fields of the state's
\* visual_audio that are set are copied into the agent
load_existing(a, existing) ==
    IF existing = Null THEN a
    ELSE [a EXCEPT
            !.obfuscated_story = IF existing.obfuscated_story # 0 THEN existing.obfuscated_story ELSE @,
            !.veo_script = IF existing.veo_script # 0 THEN existing.veo_script ELSE @,
            !.character_descriptions = IF existing.character_descriptions # 0 THEN existing.character_descriptions ELSE @,
            !.character_ref_images = IF existing.character_ref_images # {} THEN existing.character_ref_images ELSE @,
            !.clip_ref_images = IF existing.clip_ref_images # {} THEN existing.clip_ref_images ELSE @]

visual_audio_in_progress(st) ==
    IF st # Null THEN [st EXCEPT !.visual_audio_status = IN_PROGRESS] ELSE st

\* _save_va_state: the agent's state object goes into the slot
save_va_state(st) ==
    IF st # Null THEN [st EXCEPT !.visual_audio = AgentRef] ELSE st

\* generate_video_assets_stepwise up to its first sub-stage, for a video
\* input of inputs
GenerateVideoAssetsStepwiseCallWith(inputs) ==
    /\ pc = Idle
    /\ \E video_input \in inputs, stop_after \in StopAfterArgs :
          LET args == [video_input |-> video_input, stop_after |-> stop_after]
              prior == Prior(state, "generate_video_assets_stepwise")
          IN IF ~video_input.fact_sheet_reference
             THEN /\ pc' = VAReturned("generate_video_assets_stepwise", args, prior,
                                      "ValueError", "PreconditionError", Null, {})
                  /\ UNCHANGED <<state, agent>>
             ELSE LET a1 == [agent EXCEPT !.output_dir = video_input.project_id]
                  IN /\ agent' = load_existing(a1, VisualAudio(state, a1))
                     /\ state' = visual_audio_in_progress(state)
                     /\ pc' = Running("generate_video_assets_stepwise", args, prior)
    /\ UNCHANGED <<heap, held, err, call>>

GenerateVideoAssetsStepwiseCall == GenerateVideoAssetsStepwiseCallWith(VideoInputs)

\* the two language versions of a package as video inputs, with or without
\* their fact sheet
LanguageVersions == [project_id : {1, 2}, fact_sheet_reference : BOOLEAN]

\* generate_video_assets_stepwise called for a language version
GenerateVideoAssetsStepwiseVersion == GenerateVideoAssetsStepwiseCallWith(LanguageVersions)

\* generate_video_assets_stepwise from its first sub-stage on: an exception
\* of a sub-stage propagates to the caller
GenerateVideoAssetsStepwiseReturn ==
    /\ pc.phase = "run" /\ pc.op = "generate_video_assets_stepwise"
    /\ \E d \in Deliveries(agent, StopIndex(pc.args.stop_after), TRUE) :
          LET stop == StopIndex(pc.args.stop_after)
              r == RunStages(agent, 1, stop, TRUE,
                             pc.args.video_input.project_id, d, {})
          IN /\ agent' = r.agent
             /\ IF r.raised
                THEN /\ UNCHANGED state
                     /\ pc' = VAReturned(pc.op, pc.args, pc.prior,
                                         "Exception", "BackendError", Null, r.issued)
                ELSE /\ state' = IF stop < NumStages \/ state = Null
                                 THEN save_va_state(state)
                                 ELSE [state EXCEPT !.visual_audio = AgentRef,
                                                    !.visual_audio_status = COMPLETED]
                     /\ pc' = VAReturned(pc.op, pc.args, pc.prior,
                                         "ok", "", AgentRef, r.issued)
    /\ UNCHANGED <<heap, held, err, call>>

\* generate_video_assets up to the await of the agent
GenerateVideoAssetsCall ==
    /\ pc = Idle
    /\ \E video_input \in VideoInputs :
          LET args == [video_input |-> video_input]
              prior == Prior(state, "generate_video_assets")
          IN /\ state' = visual_audio_in_progress(state)
             /\ pc' = IF ~video_input.fact_sheet_reference
                      THEN VAReturned("generate_video_assets", args, prior,
                                      "ValueError", "PreconditionError", Null, {})
                      ELSE Running("generate_video_assets", args, prior)
    /\ UNCHANGED <<agent, heap, held, err, call>>

\* VisualAudioAgent.process: all six sub-stages, nothing reused, every
\* exception turned into success = false
VisualAudioProcess(a, project_id, d) ==
    RunStages([a EXCEPT !.output_dir = project_id], 1, NumStages, FALSE, project_id, d, {})

\* generate_video_assets from the agent's result on
GenerateVideoAssetsReturn ==
    /\ pc.phase = "run" /\ pc.op = "generate_video_assets"
    /\ \E d \in Deliveries(agent, NumStages, FALSE) :
          LET r == VisualAudioProcess(agent, pc.args.video_input.project_id, d)
          IN /\ agent' = r.agent
             /\ IF r.raised
                THEN /\ state' = IF state # Null
                                 THEN [state EXCEPT !.visual_audio_status = FAILED]
                                 ELSE state
                     /\ pc' = VAReturned(pc.op, pc.args, pc.prior,
                                         "RuntimeError", "BackendError", Null, r.issued)
                ELSE /\ state' = IF state # Null
                                 THEN [state EXCEPT !.visual_audio = AgentRef,
                                                    !.visual_audio_status = COMPLETED]
                                 ELSE state
                     /\ pc' = VAReturned(pc.op, pc.args, pc.prior,
                                         "ok", "", AgentRef, r.issued)
    /\ UNCHANGED <<heap, held, err, call>>

---------------------------------------------------------------------------
(* Refinement: refine_script, chat_refine, the video-package chat route *)

\* DirectorAgent.refine_with_feedback: one backend call, every exception
\* turned into success = false
RefineWithFeedback(out, output) == SingleCallProcess(out, output)

\* refine_script: the refined script replaces the stored one on success; on
\* failure nothing is raised and None is returned
RefineScript ==
    /\ pc = Idle
    /\ IF state = Null
       THEN /\ pc' = Returned("refine_script", Null, "none",
                              "ValueError", "PreconditionError", Null, 0)
            /\ UNCHANGED <<state, heap>>
       ELSE IF state.director_output = Null
       THEN /\ pc' = Returned("refine_script", Null, "none",
                              "ValueError", "PreconditionError", Null, 0)
            /\ UNCHANGED <<state, heap>>
       ELSE \E out \in Outcomes, c \in Contents :
              LET ids == NewIds(Refs(IF held = Null THEN Null ELSE held.obj), NumScenes)
                  result == RefineWithFeedback(out, DirectorOutput(c, ids))
              IN /\ state' = IF result.success
                             THEN [state EXCEPT !.director_output = result.output]
                             ELSE state
                 /\ heap' = Collect(IF result.success THEN Store(heap, ids, c) ELSE heap,
                                    Live(state', held, result.output))
                 /\ pc' = Returned("refine_script", Null, "none", "ok",
                                   result.error, result.output, result.calls)
    /\ UNCHANGED <<agent, held, err, call>>

\* what the chat model asks to change in a script: nothing, the master
\* script, or a field of one scene
ScriptUpdates ==
    {Null} \cup {[master_script |-> c] : c \in Contents}
           \cup {[scene |-> i, value |-> c] : i \in 1 .. NumScenes, c \in Contents}

\* routes.chat_about_video_package, lines 1313-1342: the scene list is copied,
\* its dictionaries are not; the changed fields are assigned into them
chat_update_scenes(h, d, update) ==
    IF "scene" \in DOMAIN update
    THEN [h EXCEPT ![d.scene_breakdown[update.scene]] = update.value]
    ELSE h

chat_update_output(d, update) ==
    IF "master_script" \in DOMAIN update
    THEN [d EXCEPT !.master_script = update.master_script]
    ELSE d

ChatAboutVideoPackage ==
    /\ pc = Idle
    /\ state # Null
    /\ IF state.director_output = Null /\ state.video_package = Null
       THEN /\ pc' = Returned("chat_about_video_package", Null, "none",
                              "HTTPException", "PreconditionError", Null, 0)
            /\ UNCHANGED <<state, heap>>
       ELSE \E out \in {"ok", "error"}, update \in ScriptUpdates :
              IF out = "error"
              THEN /\ pc' = Returned("chat_about_video_package", Null, "none",
                                     "HTTPException", "BackendError", Null, 1)
                   /\ UNCHANGED <<state, heap>>
              ELSE IF update = Null \/ state.director_output = Null
              THEN /\ pc' = Returned("chat_about_video_package", Null, "none", "ok", "",
                                     state.director_output, 1)
                   /\ UNCHANGED <<state, heap>>
              ELSE /\ heap' = chat_update_scenes(heap, state.director_output, update)
                   /\ state' = [state EXCEPT
                                   !.director_output = chat_update_output(@, update)]
                   /\ pc' = Returned("chat_about_video_package", Null, "none", "ok", "",
                                     state'.director_output, 1)
    /\ UNCHANGED <<agent, held, err, call>>

\* what the chat model asks to change in a fact sheet (updated_fields): it
\* is applied as returned, whatever the fields
FactUpdates ==
    {Null} \cup {[scam_name |-> c] : c \in Contents} \cup {[verified_by_officer |-> TRUE]}

\* the guards of chat_refine without the third (verified_by_officer)
chat_refine_unguarded(st) ==
    IF st = Null THEN FALSE ELSE st.fact_sheet # Null

\* the three guards of chat_refine (pipeline.py:918-925)
chat_refine_allowed(st) ==
    IF st = Null THEN FALSE
    ELSE IF st.fact_sheet = Null THEN FALSE
    ELSE ~st.fact_sheet.verified_by_officer

\* _refine_fact_sheet_via_chat: the stored fact sheet is replaced by a copy
\* with the updated fields
refine_fact_sheet_via_chat(st, update) ==
    IF update = Null THEN st
    ELSE [st EXCEPT !.fact_sheet = model_copy(@, update)]

\* ChatHistory.add_message at the front of the list
add_message_front(messages, role, content) ==
    <<[role |-> role, content |-> content, target |-> "fact_sheet"]>> \o messages

\* ChatHistory.add_message: the target is ChatTarget.FACT_SHEET, the
\* timestamp is not modelled
add_message(messages, role, content) ==
    Append(messages, [role |-> role, content |-> content, target |-> "fact_sheet"])

\* chat_refine's record of the officer's message
record_officer(st, message) ==
    [st EXCEPT !.chat_history = add_message(@, "officer", message)]

\* chat_refine's record of the agent's response
record_agent(st, response) ==
    [st EXCEPT !.chat_history = add_message(@, "agent", response)]

\* chat_refine: message is the officer's instruction, response the text
\* the model answers with; a backend error leaves the officer's message
\* recorded and no response
ChatRefine ==
    /\ pc = Idle
    /\ IF ~chat_refine_allowed(state)
       THEN /\ pc' = Returned("chat_refine", Null, "none",
                              "ValueError", "PreconditionError", Null, 0)
            /\ UNCHANGED state
       ELSE /\ Len(state.chat_history) + 2 <= MaxChat
            /\ \E out \in {"ok", "error"}, update \in FactUpdates,
                  message \in Contents, response \in Contents :
                  LET recorded == record_officer(state, message)
                      args == [message |-> message]
                  IN IF out = "error"
                     THEN /\ state' = recorded
                          /\ pc' = Returned("chat_refine", args, "none",
                                            "Exception", "BackendError", Null, 1)
                     ELSE /\ state' = record_agent(refine_fact_sheet_via_chat(recorded, update),
                                                   response)
                          /\ pc' = Returned("chat_refine", args, "none", "ok", "",
                                            [response |-> response,
                                             updated_content |-> state'.fact_sheet], 1)
    /\ UNCHANGED <<agent, heap, held, err, call>>

\* what a returned value shows when read
Snapshot(ret) ==
    IF ret = AgentRef THEN agent
    ELSE IF "scene_breakdown" \in DOMAIN ret THEN Dump(ret, heap)
    ELSE ret

\* the caller keeps the value just returned
Keep ==
    /\ pc.phase = "ret" /\ pc.outcome = "ok" /\ pc.ret # Null
    /\ held' = [op |-> pc.op, args |-> pc.args, obj |-> pc.ret, snap |-> Snapshot(pc.ret)]
    /\ held' # held
    /\ UNCHANGED <<state, agent, heap, pc, err, call>>

---------------------------------------------------------------------------
(* Retry classification: visual_audio_agent._is_retryable *)

\* a message is a sequence of characters
LowerCase ==
    <<"a", "b", "c", "d", "e", "f", "g", "h", "i", "j", "k", "l", "m",
      "n", "o", "p", "q", "r", "s", "t", "u", "v", "w", "x", "y", "z">>

UpperCase ==
    <<"A", "B", "C", "D", "E", "F", "G", "H", "I", "J", "K", "L", "M",
      "N", "O", "P", "Q", "R", "S", "T", "U", "V", "W", "X", "Y", "Z">>

\* str.lower() on one character
lower_char(ch) ==
    IF \E i \in DOMAIN UpperCase : UpperCase[i] = ch
    THEN LowerCase[CHOOSE i \in DOMAIN UpperCase : UpperCase[i] = ch]
    ELSE ch

\* str.upper() on one character
upper_char(ch) ==
    IF \E i \in DOMAIN LowerCase : LowerCase[i] = ch
    THEN UpperCase[CHOOSE i \in DOMAIN LowerCase : LowerCase[i] = ch]
    ELSE ch

\* the message as it is compared when str.lower() is not applied
lower_missing(msg) == msg

\* str(e).lower()
lower(msg) == [i \in DOMAIN msg |-> lower_char(msg[i])]

\* k in s
Contains(msg, k) ==
    \E i \in 1 .. (Len(msg) - Len(k) + 1) : SubSeq(msg, i, i + Len(k) - 1) = k

\* the substrings _is_retryable looks for
RetryKeywords ==
    {<<"5", "0", "3">>,
     <<"u", "n", "a", "v", "a", "i", "l", "a", "b", "l", "e">>,
     <<"h", "i", "g", "h", " ", "d", "e", "m", "a", "n", "d">>,
     <<"r", "e", "s", "o", "u", "r", "c", "e", "_", "e", "x", "h", "a", "u", "s", "t", "e", "d">>,
     <<"r", "a", "t", "e">>}

\* _is_retryable(e), on the message of e
is_retryable(msg) ==
    LET s == lower(msg)
    IN \E k \in RetryKeywords : Contains(s, k)

\* the errors classified, written in lower case
ErrorText(kind) ==
    CASE kind = "503" -> <<"5", "0", "3">>
      [] kind = "RESOURCE_EXHAUSTED" -> <<"r", "e", "s", "o", "u", "r", "c", "e", "_", "e", "x", "h", "a", "u", "s", "t", "e", "d">>
      [] kind = "invalid argument" -> <<"i", "n", "v", "a", "l", "i", "d", " ", "a", "r", "g", "u", "m", "e", "n", "t">>
      [] kind = "429" -> <<"4", "2", "9">>
      [] kind = "unavailable" -> <<"u", "n", "a", "v", "a", "i", "l", "a", "b", "l", "e">>
      [] kind = "high demand" -> <<"h", "i", "g", "h", " ", "d", "e", "m", "a", "n", "d">>
      [] kind = "rate limit" -> <<"r", "a", "t", "e", " ", "l", "i", "m", "i", "t">>
      [] kind = "unauthorized" -> <<"u", "n", "a", "u", "t", "h", "o", "r", "i", "z", "e", "d">>
      [] kind = "cannot generate" -> <<"c", "a", "n", "n", "o", "t", " ", "g", "e", "n", "e", "r", "a", "t", "e">>

\* the errors that carry a transient-capacity signal, and those that do not
\* (an authentication failure, two malformed-request failures)
TransientKinds ==
    {"503", "RESOURCE_EXHAUSTED", "429", "unavailable", "high demand", "rate limit"}

FatalKinds == {"invalid argument", "unauthorized", "cannot generate"}

ErrorKinds == TransientKinds \cup FatalKinds

\* text with the characters at the positions U in upper case
Cased(text, U) ==
    [i \in DOMAIN text |-> IF i \in U THEN upper_char(text[i]) ELSE text[i]]

\* the letter cases a text is written in: at most MaxUpper upper-case
\* characters, or all of them
Casings(text) ==
    {U \in SUBSET DOMAIN text : Cardinality(U) <= MaxUpper} \cup {DOMAIN text}

\* what surrounds the text in an exception's message
Prefixes == {<<>>, <<"e", "r", "r", "o", "r", ":", " ">>}

Suffixes == {<<>>, <<" ", "f", "a", "i", "l", "e", "d">>}

\* the exceptions a backend call raises, not yet classified
Errors ==
    UNION {{[msg |-> p \o Cased(ErrorText(kind), U) \o q, kind |-> kind,
             classified |-> FALSE, retryable |-> FALSE] :
                U \in Casings(ErrorText(kind))} :
           <<kind, p, q>> \in ErrorKinds \X Prefixes \X Suffixes}

\* except Exception as e: _is_retryable(e)
Classify ==
    /\ err # Null
    /\ ~err.classified
    /\ err' = [err EXCEPT !.classified = TRUE, !.retryable = is_retryable(err.msg)]
    /\ UNCHANGED <<state, agent, heap, held, pc, call>>

---------------------------------------------------------------------------
(* Transport retries: VisualAudioAgent._call_image_sync *)

MAX_RETRIES == 8

RETRY_BASE_DELAY == 1

Min(a, b) == IF a <= b THEN a ELSE b

\* the exceptions the image backend raises
ImageErrors == {[kind |-> kind, msg |-> ErrorText(kind)] : kind \in ErrorKinds}

\* what one generate_content call ends in: a response with an image part, a
\* response without one, or an exception
ImageAnswers == {[image |-> TRUE], [image |-> FALSE]} \cup ImageErrors

\* the condition under which the loop sleeps and tries again, without the
\* classification / without the attempt bound
image_retry_always(e, attempt) == attempt < MAX_RETRIES - 1

image_retry_unbounded(e, attempt) == is_retryable(e.msg)

\* _is_retryable(e) and attempt < MAX_RETRIES - 1
image_retry(e, attempt) == is_retryable(e.msg) /\ attempt < MAX_RETRIES - 1

\* the call as it starts: for attempt in range(MAX_RETRIES)
ImageCall(request) ==
    [fn |-> "_call_image_sync", request |-> request, status |-> "running",
     attempt |-> 0, calls |-> 0, sleeps |-> 0, wait |-> 0,
     answer |-> Null, ret |-> Null, error |-> Null]

\* one iteration of the loop on the backend's answer; when the range is
\* used up the function returns None
image_attempt(c, answer) ==
    LET made == [c EXCEPT !.calls = @ + 1, !.answer = answer]
    IN IF "image" \in DOMAIN answer
       THEN [made EXCEPT !.status = "returned",
                        !.ret = IF answer.image THEN [image |-> TRUE] ELSE Null]
       ELSE IF image_retry(answer, c.attempt)
       THEN [made EXCEPT !.sleeps = @ + 1,
                        !.wait = Min(RETRY_BASE_DELAY + c.attempt * 10, 90),
                        !.attempt = @ + 1,
                        !.status = IF c.attempt + 1 < MAX_RETRIES THEN "running" ELSE "returned",
                        !.ret = Null]
       ELSE [made EXCEPT !.status = "raised", !.error = answer]

\* a sub-stage calls _call_image_sync with a prompt or with parts
CallImageSync ==
    /\ IF call = Null THEN TRUE ELSE call.status # "running"
    /\ \E request \in {"prompt", "parts"} : call' = ImageCall(request)
    /\ UNCHANGED <<state, agent, heap, held, pc, err>>

ImageAttempt ==
    /\ call # Null
    /\ call.fn = "_call_image_sync"
    /\ call.status = "running"
    /\ \E answer \in ImageAnswers : call' = image_attempt(call, answer)
    /\ UNCHANGED <<state, agent, heap, held, pc, err>>

---------------------------------------------------------------------------
(* Stage agents attempt by attempt: BaseAgent._call_llm and process() *)

TextStages == {"research", "director", "linguistic", "sensitivity", "social"}

\* the agents whose process() has the retry loop
RetryingStages == {"director", "social"}

\* what the backend does with one generate_content request: text that
\* parses, text that is not JSON, JSON without a required field, no text,
\* a 503, a 400, a timeout
StageAnswers == {"ok", "malformed", "invalid", "empty", "transient", "fatal", "timeout"}

\* the answers parse_response fails on with a ValueError
MalformedAnswers == {"malformed", "invalid"}

\* one attempt of process(): _call_llm, then parse_response. raises is the
\* exception class the attempt ends in, error what str(e) tells, calls the
\* backend calls made. Without an API key _call_llm raises ValueError
\* before any request.
attempt_outcome(api_key, answer) ==
    IF ~api_key
    THEN [raises |-> "ValueError", error |-> "ConfigurationError", calls |-> 0]
    ELSE CASE answer = "ok" -> [raises |-> "none", error |-> "", calls |-> 1]
           [] answer = "malformed" ->
                [raises |-> "ValueError", error |-> "ExtractionFailure", calls |-> 1]
           [] answer = "invalid" ->
                [raises |-> "ValueError", error |-> "ValidationFailure", calls |-> 1]
           [] answer = "empty" ->
                [raises |-> "Exception", error |-> "EmptyOutput", calls |-> 1]
           [] answer = "transient" ->
                [raises |-> "Exception", error |-> "TransientBackendError", calls |-> 1]
           [] answer = "fatal" ->
                [raises |-> "Exception", error |-> "FatalBackendError", calls |-> 1]
           [] answer = "timeout" ->
                [raises |-> "Exception", error |-> "TimeoutFailure", calls |-> 1]

\* process() as it starts; DirectorAgent.process returns at once on an
\* unverified fact sheet
StageCall(stage, api_key, verified) ==
    LET c == [fn |-> "process", stage |-> stage, api_key |-> api_key,
              verified |-> verified,
              status |-> "running", attempt |-> 0, attempts |-> 0, calls |-> 0,
              transient |-> 0, answer |-> "none", raised |-> "none",
              errors |-> <<>>,
              success |-> FALSE, error |-> ""]
    IN IF stage = "director" /\ ~verified
       THEN [c EXCEPT !.status = "returned", !.error = "PreconditionError"]
       ELSE c

\* the loop continues: except ValueError with attempt < max_retries
stage_retry(stage, raises, attempt) ==
    stage \in RetryingStages /\ raises = "ValueError" /\ attempt < max_retries

\* one attempt of process() on the backend's answer; errors are the
\* exceptions caught so far (each is logged, the last is last_error)
stage_attempt(c, answer) ==
    LET o == attempt_outcome(c.api_key, answer)
        made == [c EXCEPT !.attempts = @ + 1,
                          !.calls = @ + o.calls,
                          !.transient = @ + (IF o.error = "TransientBackendError" THEN 1 ELSE 0),
                          !.answer = IF o.calls = 0 THEN "none" ELSE answer,
                          !.raised = o.raises,
                          !.errors = IF o.raises = "none" THEN @ ELSE Append(@, o.error),
                          !.error = o.error]
    IN IF o.raises = "none"
       THEN [made EXCEPT !.status = "returned", !.success = TRUE]
       ELSE IF stage_retry(c.stage, o.raises, c.attempt)
       THEN [made EXCEPT !.attempt = @ + 1]
       ELSE [made EXCEPT !.status = "returned"]

\* the orchestrator awaits an agent's process()
StageProcess ==
    /\ IF call = Null THEN TRUE ELSE call.status # "running"
    /\ \E stage \in TextStages, api_key \in BOOLEAN :
          \E verified \in (IF stage = "director" THEN BOOLEAN ELSE {TRUE}) :
             call' = StageCall(stage, api_key, verified)
    /\ UNCHANGED <<state, agent, heap, held, pc, err>>

StageAttempt ==
    /\ call # Null
    /\ call.fn = "process"
    /\ call.status = "running"
    /\ \E answer \in (IF call.api_key THEN StageAnswers ELSE {"ok"}) :
          call' = stage_attempt(call, answer)
    /\ UNCHANGED <<state, agent, heap, held, pc, err>>

---------------------------------------------------------------------------
(* Polling: ResearchAgent._poll_deep_research and _generate_veo_clip_sync *)

DEEP_RESEARCH_POLL_INTERVAL == 10

DEEP_RESEARCH_MAX_WAIT == 600

\* what interactions.get answers: a status (with the report when
\* completed), or an exception
PollAnswers ==
    {[status |-> st] : st \in {"in_progress", "failed", "cancelled"}}
        \cup {[status |-> "completed", text |-> t] : t \in Contents}
        \cup {[raises |-> "Exception"]}

\* the loop condition without its bound
poll_continues_forever(elapsed) == TRUE

\* while elapsed < DEEP_RESEARCH_MAX_WAIT
poll_continues(elapsed) == elapsed < DEEP_RESEARCH_MAX_WAIT

\* _poll_deep_research as it starts
PollCall(on_thought) ==
    [fn |-> "_poll_deep_research", on_thought |-> on_thought, status |-> "running",
     elapsed |-> 0, polls |-> 0, thoughts |-> 0, seen |-> {},
     answer |-> Null, ret |-> 0, error |-> "none"]

\* one iteration: sleep, get, on_thought, the status tests; the loop
\* condition is tested again and TimeoutError raised when it fails
poll_step(c, answer) ==
    LET polled == [c EXCEPT !.elapsed = @ + DEEP_RESEARCH_POLL_INTERVAL,
                            !.polls = @ + 1,
                            !.seen = IF c.answer = Null THEN @ ELSE @ \cup {c.answer.status},
                            !.answer = answer]
        told == [polled EXCEPT !.thoughts = IF c.on_thought THEN @ + 1 ELSE @]
    IN IF "raises" \in DOMAIN answer
       THEN [polled EXCEPT !.status = "raised", !.error = answer.raises]
       ELSE IF answer.status = "completed"
       THEN [told EXCEPT !.status = "returned", !.ret = answer.text]
       ELSE IF answer.status = "failed"
       THEN [told EXCEPT !.status = "raised", !.error = "RuntimeError"]
       ELSE IF poll_continues(told.elapsed)
       THEN told
       ELSE [told EXCEPT !.status = "raised", !.error = "TimeoutError"]

PollDeepResearch ==
    /\ IF call = Null THEN TRUE ELSE call.status # "running"
    /\ \E on_thought \in BOOLEAN : call' = PollCall(on_thought)
    /\ UNCHANGED <<state, agent, heap, held, pc, err>>

PollAttempt ==
    /\ call # Null
    /\ call.fn = "_poll_deep_research"
    /\ call.status = "running"
    /\ \E answer \in PollAnswers : call' = poll_step(call, answer)
    /\ UNCHANGED <<state, agent, heap, held, pc, err>>

\* what generate_videos / operations.get answer: an operation that is not
\* done, one that is done with or without a video, or an exception
VeoAnswers ==
    {[done |-> FALSE], [done |-> TRUE, video |-> TRUE], [done |-> TRUE, video |-> FALSE],
     [raises |-> "Exception"]}

\* _generate_veo_clip_sync after generate_videos has answered; gets counts
\* the operations.get calls up to MaxVeoPolls, operation tells one
\* operation object from the next
veo_step(c, answer) ==
    LET got == [c EXCEPT !.gets = IF c.operation = 0 THEN 0 ELSE Min(@ + 1, MaxVeoPolls),
                         !.operation = IF c.operation = 1 THEN 2 ELSE 1,
                         !.answer = answer]
    IN IF "raises" \in DOMAIN answer
       THEN [got EXCEPT !.status = "returned", !.ret = FALSE]
       ELSE IF ~answer.done
       THEN got
       ELSE [got EXCEPT !.status = "returned", !.ret = answer.video]

\* generate_veo_clips runs _generate_veo_clip_sync for a segment
GenerateVeoClipSync ==
    /\ IF call = Null THEN TRUE ELSE call.status # "running"
    /\ \E seg \in Segments :
          call' = [fn |-> "_generate_veo_clip_sync", segment |-> seg, status |-> "running",
                   gets |-> 0, operation |-> 0, answer |-> Null, ret |-> FALSE]
    /\ UNCHANGED <<state, agent, heap, held, pc, err>>

\* generate_videos, or time.sleep(10) and operations.get
VeoPoll ==
    /\ call # Null
    /\ call.fn = "_generate_veo_clip_sync"
    /\ call.status = "running"
    /\ \E answer \in VeoAnswers : call' = veo_step(call, answer)
    /\ UNCHANGED <<state, agent, heap, held, pc, err>>

---------------------------------------------------------------------------
(* Streaming: ResearchAgent._call_deep_research behind /intake/stream *)

\* the events of a stream before its end
BodyEvents ==
    {[type |-> "start"]}
        \cup {[type |-> "thought", payload |-> p] : p \in Contents}
        \cup {[type |-> "text", payload |-> p] : p \in Contents}

\* how a stream ends: interaction.complete, an error event, an exception
\* raised by the iterator, or nothing more to read
StreamEnds == {<<>>, <<[type |-> "complete"]>>, <<[type |-> "error"]>>, <<[type |-> "raise"]>>}

RECURSIVE SeqsUpTo(_, _)
SeqsUpTo(S, n) ==
    IF n = 0 THEN {<<>>}
    ELSE LET shorter == SeqsUpTo(S, n - 1)
         IN shorter \cup {Append(q, x) : q \in shorter, x \in S}

\* the event streams of the backend
Streams == {body \o end : body \in SeqsUpTo(BodyEvents, MaxStream), end \in StreamEnds}

\* thought_queue.put at the front of the queue
queue_put_front(q, x) == <<x>> \o q

\* thought_queue.put
queue_put(q, x) == Append(q, x)

\* on_thought of the endpoint: the text goes to the queue; sink is what
\* on_thought was called with, in the order of the calls
on_thought(c, src, payload) ==
    LET t == [src |-> src, payload |-> payload]
    IN [c EXCEPT !.sink = Append(@, t), !.queue = queue_put(@, t)]

\* run_research ends: process_intake has returned the fact sheet or raised;
\* the sentinel is put in the finally clause
research_done(c, ok) ==
    [c EXCEPT !.task = "done",
              !.holder = IF ok THEN "fact_sheet" ELSE "error",
              !.queue = queue_put(@, [sentinel |-> TRUE])]

\* `return final_text` of _call_deep_research: parse_response makes the
\* fact sheet of the report or fails
research_returns(c, parsed) ==
    research_done([c EXCEPT !.report = [by |-> "stream", text |-> c.final_text]], parsed)

\* an exception leaves _call_deep_research
research_raises(c) == research_done([c EXCEPT !.report = [by |-> "raise"]], FALSE)

\* the fall-back to _poll_deep_research, which reports its progress to
\* on_thought and returns the text of the job's last output or raises
research_polls(c, polled, parsed) ==
    LET told == on_thought(c, "agent", "progress")
    IN IF polled
       THEN research_done([told EXCEPT !.report = [by |-> "poll"]], parsed)
       ELSE research_raises(told)

\* the except clause of _call_deep_research (lines 449-459)
research_except(c, polled, parsed) ==
    IF c.interaction_id /\ c.final_text = <<>>
    THEN research_polls(on_thought(c, "agent", "reconnecting"), polled, parsed)
    ELSE IF c.final_text # <<>>
    THEN research_returns(c, parsed)
    ELSE research_raises(c)

\* one turn of `for chunk in stream`, or what follows the loop
stream_step(c, polled, parsed) ==
    IF c.read = Len(c.stream)
    THEN IF c.interaction_id
         THEN research_polls(c, polled, parsed)
         ELSE research_raises(c)
    ELSE LET chunk == c.stream[c.read + 1]
             r == [c EXCEPT !.read = @ + 1]
         IN CASE chunk.type = "start" -> [r EXCEPT !.interaction_id = TRUE]
              [] chunk.type = "text" -> [r EXCEPT !.final_text = Append(@, chunk.payload)]
              [] chunk.type = "thought" -> on_thought(r, "backend", chunk.payload)
              [] chunk.type = "complete" -> research_returns(r, parsed)
              [] OTHER -> research_except(r, polled, parsed)

\* the endpoint takes the next item of the queue and yields an event
event_generator_step(c) ==
    LET item == Head(c.queue)
        rest == [c EXCEPT !.queue = Tail(@)]
    IN IF "sentinel" \in DOMAIN item
       THEN [rest EXCEPT !.status = "returned",
                         !.emitted = Append(@, [event |-> IF c.holder = "error"
                                                          THEN "error" ELSE "result"])]
       ELSE [rest EXCEPT !.emitted = Append(@, [event |-> "thought", thought |-> item])]

\* POST /intake/stream: the research task is created
SubmitIntakeStream ==
    /\ IF call = Null THEN TRUE ELSE call.status # "running"
    /\ \E stream \in Streams :
          call' = [fn |-> "submit_intake_stream", status |-> "running", task |-> "streaming",
                   stream |-> stream, read |-> 0, interaction_id |-> FALSE,
                   final_text |-> <<>>, sink |-> <<>>, queue |-> <<>>,
                   emitted |-> <<>>, holder |-> "none", report |-> Null]
    /\ UNCHANGED <<state, agent, heap, held, pc, err>>

\* the research task handles the next chunk
StreamChunk ==
    /\ call # Null
    /\ call.fn = "submit_intake_stream"
    /\ call.task = "streaming"
    /\ \E polled \in BOOLEAN, parsed \in BOOLEAN : call' = stream_step(call, polled, parsed)
    /\ UNCHANGED <<state, agent, heap, held, pc, err>>

\* the endpoint's generator resumes on a queue item
QueueGet ==
    /\ call # Null
    /\ call.fn = "submit_intake_stream"
    /\ call.status = "running"
    /\ call.queue # <<>>
    /\ call' = event_generator_step(call)
    /\ UNCHANGED <<state, agent, heap, held, pc, err>>

---------------------------------------------------------------------------
(* Sessions: the registry of routes.py, the output tree, concurrent requests *)

\* project ids the director's backend puts into its output
ProjectIds == 1 .. MaxSessions

\* the server as started: the registry _sessions (session ids are the
\* positions), the files under the output directory each with the request
\* that wrote it, and the /video-assets requests; alone[s] is session s as
\* its own operations alone leave it, with the files they alone wrote
Serving == [fn |-> "serve", sessions |-> <<>>, alone |-> <<>>, files |-> {}, requests |-> <<>>]

\* create_pipeline(): an orchestrator with its own agents and no state
create_pipeline == [state |-> Null, agent |-> VisualAudioPipelineState, files |-> {}]

\* POST /intake: a new orchestrator processes the intake and is registered
\* under its fresh session id when the research stage has succeeded
submit_intake(w, intake, result) ==
    LET pipeline == [create_pipeline EXCEPT
                        !.state = process_intake_end(process_intake_begin(@, intake), result)]
    IN IF result.success
       THEN [w EXCEPT !.sessions = Append(@, pipeline), !.alone = Append(@, pipeline)]
       ELSE w

SubmitIntake ==
    /\ IF call = Null THEN TRUE ELSE call.fn = "serve" /\ Len(call.sessions) < MaxSessions
    /\ \E intake \in Intakes, out \in Outcomes :
          call' = submit_intake(IF call = Null THEN Serving ELSE call, intake,
                                SingleCallProcess(out, FactSheet(1)))
    /\ UNCHANGED <<state, agent, heap, held, pc, err>>

\* POST /verify and POST /generate up to the assembled package, whose
\* video inputs carry the project id of the director's output
package_ready(st, project_id) ==
    LET fs == verify(st.fact_sheet, 1, 0)
        sens == SensitivityCheckOutput(TRUE)
    IN [assemble_video_package(verify_fact_sheet_commit(st, fs), fs, sens) EXCEPT
           !.video_package = @ @@ [project_id |-> project_id]]

GeneratePackage ==
    /\ call # Null
    /\ call.fn = "serve"
    /\ \E s \in DOMAIN call.sessions, project_id \in ProjectIds :
          /\ call.sessions[s].state.video_package = Null
          /\ call' = [call EXCEPT
                         !.sessions[s].state = package_ready(@, project_id),
                         !.alone[s].state = package_ready(@, project_id)]
    /\ UNCHANGED <<state, agent, heap, held, pc, err>>

\* Path.exists()
path_exists(files, path) == \E f \in files : f.path = path

\* generate_clip_ref_frames: of the frames the image calls deliver, an end
\* frame is asked for only when the start frame's file is on disk
clip_frames(files, dir, answered) ==
    {f \in answered :
        f[2] = "end" =>
            \/ <<f[1], "start">> \in answered
            \/ path_exists(files, Path(dir, "clip_refs", <<f[1], "start">>))}

\* the files sub-stage k saves
saved_paths(k, dir, d) ==
    CASE k = 4 -> {e.path : e \in CharacterRefImages(dir, d.imgs)}
      [] k = 5 -> {e.path : e \in ClipRefEntries(dir, d.frames)}
      [] k = 6 -> {e.path : e \in VeoClipEntries(dir, d.clips)}
      [] OTHER -> {}

\* what the backend delivers to sub-stage k of one request
StageDeliveries(k) ==
    {d \in [fail : BOOLEAN, imgs : SUBSET Roles, frames : SUBSET Frames, clips : SUBSET Segments] :
        /\ d.fail => k < NumStages
        /\ (k # 4 \/ d.fail) => d.imgs = {}
        /\ (k # 5 \/ d.fail) => d.frames = {}
        /\ k # 6 => d.clips = {}}

\* generate_video_assets_stepwise up to its first sub-stage, on
\* orchestrator o (lines 629-670)
stepwise_begin(o, dir) ==
    LET a1 == [o.agent EXCEPT !.output_dir = dir]
    IN [o EXCEPT !.agent = load_existing(a1, VisualAudio(o.state, a1)),
                 !.state = visual_audio_in_progress(@)]

\* has_story ... has_clip_refs, taken once before the first sub-stage
has_flags(a) == {k \in 1 .. (NumStages - 1) : Has(a, k)}

\* sub-stage q.k of request r on orchestrator o and the files there are: it
\* is skipped when its flag was set, raises when the backend fails it, and
\* otherwise saves its files and records them; then the request returns
\* at its stop_after or after the last sub-stage
stepwise_stage(o, files, q, r, d) ==
    LET skip == q.k \in q.has
        saved == [d EXCEPT !.frames = clip_frames(files, q.dir, @)]
        a == IF skip THEN o.agent ELSE Generate(o.agent, q.k, q.dir, saved)
        over == q.k = q.stop
    IN IF ~skip /\ d.fail
       THEN [o |-> o, files |-> files, status |-> "raised"]
       ELSE [o |-> [o EXCEPT !.agent = a,
                             !.state = IF ~over THEN @
                                       ELSE IF q.k < NumStages THEN save_va_state(@)
                                       ELSE [@ EXCEPT !.visual_audio = AgentRef,
                                                      !.visual_audio_status = COMPLETED]],
             files |-> IF skip THEN files
                       ELSE files \cup {[path |-> p, by |-> r] : p \in saved_paths(q.k, q.dir, saved)},
             status |-> IF over THEN "returned" ELSE "running"]

\* POST /video-assets: the request starts generate_video_assets_stepwise
\* of its session's orchestrator
VideoAssets ==
    /\ call # Null
    /\ call.fn = "serve"
    /\ Len(call.requests) < MaxRequests
    /\ \E s \in DOMAIN call.sessions, stop_after \in StopAfterArgs :
          LET o == call.sessions[s]
          IN /\ o.state.video_package # Null
             /\ LET dir == o.state.video_package.project_id
                    begun == stepwise_begin(o, dir)
                    q == [session |-> s, dir |-> dir, stop |-> StopIndex(stop_after),
                          has |-> has_flags(begun.agent), k |-> 1,
                          status |-> "running", ran |-> {}]
                IN call' = [call EXCEPT !.sessions[s] = begun,
                                        !.alone[s] = stepwise_begin(@, dir),
                                        !.requests = Append(@, q)]
    /\ UNCHANGED <<state, agent, heap, held, pc, err>>

\* a request resumes: its next sub-stage
VideoAssetsStage ==
    /\ call # Null
    /\ call.fn = "serve"
    /\ \E r \in DOMAIN call.requests :
          LET q == call.requests[r]
              s == q.session
          IN /\ q.status = "running"
             /\ \E d \in StageDeliveries(q.k) :
                   LET here == stepwise_stage(call.sessions[s], call.files, q, r, d)
                       solo == stepwise_stage(call.alone[s], call.alone[s].files, q, r, d)
                   IN call' = [call EXCEPT
                                  !.sessions[s] = here.o,
                                  !.files = here.files,
                                  !.alone[s] = [solo.o EXCEPT !.files = solo.files],
                                  !.requests[r] = [q EXCEPT
                                      !.status = here.status,
                                      !.k = IF here.status = "running" THEN @ + 1 ELSE @,
                                      !.ran = IF q.k \in q.has THEN @ ELSE @ \cup {q.k}]]
    /\ UNCHANGED <<state, agent, heap, held, pc, err>>

---------------------------------------------------------------------------
(* Model output as text: json.loads and the extractors of the stage agents *)

\* A text is a sequence of characters. The characters that matter to the
\* extractors are kept apart: braces, brackets, the quote, the backslash,
\* colon, comma and blank; FENCE stands for a run of three backticks and
\* every other string ("json", "x", a field name) for a run of letters.
QUOTE == "\""
BACKSLASH == "\\"
FENCE == "fence"

\* the result of a parse that raises json.JSONDecodeError
JSONDecodeError == [ok |-> FALSE, error |-> "JSONDecodeError"]

RECURSIVE skip_ws(_, _)
skip_ws(t, i) == IF i <= Len(t) /\ t[i] = " " THEN skip_ws(t, i + 1) ELSE i

\* a JSON string from the character after its opening quote: a backslash
\* takes the next character with it, which must be one JSON can escape
RECURSIVE scan_string(_, _, _)
scan_string(t, j, acc) ==
    IF j > Len(t) THEN JSONDecodeError
    ELSE IF t[j] = QUOTE THEN [ok |-> TRUE, value |-> [str |-> acc], next |-> j + 1]
    ELSE IF t[j] = BACKSLASH
    THEN IF j < Len(t) /\ t[j + 1] \in {QUOTE, BACKSLASH}
         THEN scan_string(t, j + 2, Append(acc, t[j + 1]))
         ELSE JSONDecodeError
    ELSE scan_string(t, j + 1, Append(acc, t[j]))

\* the JSON decoder: strings, objects and arrays (a dict is a function of
\* its keys, a later pair of the same key replacing the earlier)
RECURSIVE parse_value(_, _)
RECURSIVE parse_members(_, _, _)
RECURSIVE parse_elements(_, _, _)
parse_value(t, i0) ==
    LET i == skip_ws(t, i0)
    IN IF i > Len(t) THEN JSONDecodeError
       ELSE IF t[i] = QUOTE THEN scan_string(t, i + 1, <<>>)
       ELSE IF t[i] = "{"
       THEN LET j == skip_ws(t, i + 1)
            IN IF j <= Len(t) /\ t[j] = "}"
               THEN [ok |-> TRUE, value |-> [obj |-> <<>>], next |-> j + 1]
               ELSE parse_members(t, j, <<>>)
       ELSE IF t[i] = "["
       THEN LET j == skip_ws(t, i + 1)
            IN IF j <= Len(t) /\ t[j] = "]"
               THEN [ok |-> TRUE, value |-> [arr |-> <<>>], next |-> j + 1]
               ELSE parse_elements(t, j, <<>>)
       ELSE IF t[i] \in {"true", "false"}
       THEN [ok |-> TRUE, value |-> [bool |-> t[i] = "true"], next |-> i + 1]
       ELSE JSONDecodeError

parse_members(t, i, members) ==
    IF i > Len(t) \/ t[i] # QUOTE THEN JSONDecodeError
    ELSE LET key == scan_string(t, i + 1, <<>>)
         IN IF ~key.ok THEN JSONDecodeError
            ELSE LET c == skip_ws(t, key.next)
                 IN IF c > Len(t) \/ t[c] # ":" THEN JSONDecodeError
                    ELSE LET v == parse_value(t, c + 1)
                         IN IF ~v.ok THEN JSONDecodeError
                            ELSE LET e == skip_ws(t, v.next)
                                     dict == (key.value.str :> v.value) @@ members
                                 IN IF e > Len(t) THEN JSONDecodeError
                                    ELSE IF t[e] = "}"
                                    THEN [ok |-> TRUE, value |-> [obj |-> dict], next |-> e + 1]
                                    ELSE IF t[e] = ","
                                    THEN parse_members(t, skip_ws(t, e + 1), dict)
                                    ELSE JSONDecodeError

parse_elements(t, i, elements) ==
    LET v == parse_value(t, i)
    IN IF ~v.ok THEN JSONDecodeError
       ELSE LET e == skip_ws(t, v.next)
                list == Append(elements, v.value)
            IN IF e > Len(t) THEN JSONDecodeError
               ELSE IF t[e] = "]"
               THEN [ok |-> TRUE, value |-> [arr |-> list], next |-> e + 1]
               ELSE IF t[e] = ","
               THEN parse_elements(t, e + 1, list)
               ELSE JSONDecodeError

\* json.loads: one value and nothing but blanks after it
json_loads(t) ==
    LET v == parse_value(t, 1)
    IN IF ~v.ok THEN JSONDecodeError
       ELSE IF skip_ws(t, v.next) # Len(t) + 1 THEN JSONDecodeError
       ELSE [ok |-> TRUE, value |-> v.value]

\* str.strip(), startswith, endswith, s[n:], count, find (0 for -1)
RECURSIVE rstrip(_)
rstrip(t) == IF t # <<>> /\ t[Len(t)] = " " THEN rstrip(SubSeq(t, 1, Len(t) - 1)) ELSE t
strip(t) == rstrip(SubSeq(t, skip_ws(t, 1), Len(t)))
startswith(t, prefix) == Len(t) >= Len(prefix) /\ SubSeq(t, 1, Len(prefix)) = prefix
endswith(t, suffix) == Len(t) >= Len(suffix) /\ SubSeq(t, Len(t) - Len(suffix) + 1, Len(t)) = suffix
drop(t, n) == SubSeq(t, n + 1, Len(t))
count(t, ch) == Cardinality({i \in DOMAIN t : t[i] = ch})
find(t, ch) ==
    IF \E i \in DOMAIN t : t[i] = ch
    THEN CHOOSE i \in DOMAIN t : t[i] = ch /\ \A j \in 1 .. (i - 1) : t[j] # ch
    ELSE 0
rfind(t, ch) ==
    IF \E i \in DOMAIN t : t[i] = ch
    THEN CHOOSE i \in DOMAIN t : t[i] = ch /\ \A j \in (i + 1) .. Len(t) : t[j] # ch
    ELSE 0

\* ch * n
repeat(ch, n) == [i \in 1 .. n |-> ch]

\* the markdown fences as DirectorAgent and SocialOfficerAgent remove them
strip_fences(response) ==
    LET cleaned == strip(response)
        opened == IF startswith(cleaned, <<FENCE, "json">>) THEN drop(cleaned, 2)
                  ELSE IF startswith(cleaned, <<FENCE>>) THEN drop(cleaned, 1)
                  ELSE cleaned
    IN strip(IF endswith(opened, <<FENCE>>) THEN SubSeq(opened, 1, Len(opened) - 1) ELSE opened)

\* the loop that looks for the closing brace: every brace counts, whether
\* or not it is inside a string; 0 when no brace brings the count to zero
RECURSIVE matching_brace(_, _, _)
matching_brace(t, i, brace_count) ==
    IF i > Len(t) THEN 0
    ELSE IF t[i] = "{" THEN matching_brace(t, i + 1, brace_count + 1)
    ELSE IF t[i] = "}"
    THEN IF brace_count = 1 THEN i ELSE matching_brace(t, i + 1, brace_count - 1)
    ELSE matching_brace(t, i + 1, brace_count)

\* DirectorAgent._extract_json_from_response and
\* SocialOfficerAgent._extract_json_from_response (the same code)
extract_json_from_response(response) ==
    LET cleaned == strip_fences(response)
        start_idx == find(cleaned, "{")
        end_idx == matching_brace(cleaned, start_idx, 0)
    IN IF start_idx = 0 THEN cleaned
       ELSE IF end_idx # 0 THEN SubSeq(cleaned, start_idx, end_idx)
       ELSE drop(cleaned, start_idx - 1)

\* re.sub(r',(\s*[}\]])', r'\1', s): a comma that only blanks separate from
\* a closing brace or bracket is removed
RECURSIVE remove_trailing_commas(_)
remove_trailing_commas(t) ==
    IF t = <<>> THEN t
    ELSE LET j == skip_ws(t, 2)
         IN IF t[1] = "," /\ j <= Len(t) /\ t[j] \in {"}", "]"}
            THEN remove_trailing_commas(Tail(t))
            ELSE <<t[1]>> \o remove_trailing_commas(Tail(t))

\* the scan for an unclosed string of _fix_truncated_json
RECURSIVE unclosed_string(_, _, _, _)
unclosed_string(t, i, in_string, escaped) ==
    IF i > Len(t) THEN in_string
    ELSE IF escaped THEN unclosed_string(t, i + 1, in_string, FALSE)
    ELSE IF t[i] = BACKSLASH THEN unclosed_string(t, i + 1, in_string, TRUE)
    ELSE IF t[i] = QUOTE THEN unclosed_string(t, i + 1, ~in_string, FALSE)
    ELSE unclosed_string(t, i + 1, in_string, FALSE)

\* DirectorAgent._fix_truncated_json; its loop over newlines inside strings
\* changes no character of the texts here, which have no newline
fix_truncated_json(json_str) ==
    LET text == remove_trailing_commas(json_str)
        open_braces == count(text, "{") - count(text, "}")
        open_brackets == count(text, "[") - count(text, "]")
        closed == IF unclosed_string(text, 1, FALSE, FALSE) THEN Append(text, QUOTE) ELSE text
    IN closed \o repeat("]", open_brackets) \o repeat("}", open_braces)

\* what parse_response raises
ValueError == [ok |-> FALSE, error |-> "ValueError"]

\* required keys of a director output, of a fact sheet
DirectorKeys == {<<"project_id">>, <<"master_script">>, <<"scene_breakdown">>}
FactKeys == {<<"scam_name">>, <<"story_hook">>, <<"red_flag">>, <<"the_fix">>}

\* the record a parse_response builds of the decoded data: the required
\* keys must be there (KeyError) in a dict
build(data, keys) ==
    IF "obj" \notin DOMAIN data THEN [ok |-> FALSE, error |-> "TypeError"]
    ELSE IF ~(keys \subseteq DOMAIN data.obj) THEN ValueError
    ELSE [ok |-> TRUE, output |-> [k \in keys |-> data.obj[k]]]

\* DirectorAgent.parse_response
director_parse_response(response) ==
    LET cleaned == extract_json_from_response(response)
        data == json_loads(cleaned)
        fixed == json_loads(fix_truncated_json(cleaned))
    IN IF data.ok THEN build(data.value, DirectorKeys)
       ELSE IF fixed.ok THEN build(fixed.value, DirectorKeys)
       ELSE ValueError

\* the markdown fences as ResearchAgent._extract_json removes them
research_strip_fences(response) ==
    LET cleaned == strip(response)
        tagged == IF startswith(cleaned, <<FENCE, "json">>) THEN drop(cleaned, 2) ELSE cleaned
        opened == IF startswith(tagged, <<FENCE>>) THEN drop(tagged, 1) ELSE tagged
    IN strip(IF endswith(opened, <<FENCE>>) THEN SubSeq(opened, 1, Len(opened) - 1) ELSE opened)

\* re.search(r'\{[\s\S]*\}', cleaned): from the first opening brace to the
\* last closing brace after it; <<>> stands for no match
regex_object(cleaned) ==
    LET first == find(cleaned, "{")
        last == rfind(cleaned, "}")
    IN IF first # 0 /\ last > first THEN SubSeq(cleaned, first, last) ELSE <<>>

\* ResearchAgent._fix_json: the trailing commas; its other steps change
\* only characters that the texts here do not have
fix_json(text) == remove_trailing_commas(text)

\* where r'((?:[^"\\]|\\.)*)"' ends from position j: the index of the
\* closing quote, 0 for no match
RECURSIVE closing_quote(_, _)
closing_quote(t, j) ==
    IF j > Len(t) THEN 0
    ELSE IF t[j] = QUOTE THEN j
    ELSE IF t[j] = BACKSLASH THEN (IF j < Len(t) THEN closing_quote(t, j + 2) ELSE 0)
    ELSE closing_quote(t, j + 1)

\* where r'(.*?)"\s*[,}]' ends from position j: the first quote that only
\* blanks separate from a comma or a closing brace
RECURSIVE lazy_quote(_, _)
lazy_quote(t, j) ==
    IF j > Len(t) THEN 0
    ELSE LET e == skip_ws(t, j + 1)
         IN IF t[j] = QUOTE /\ e <= Len(t) /\ t[e] \in {",", "}"}
            THEN j
            ELSE lazy_quote(t, j + 1)

\* the position after r'"name"\s*:\s*"' matched at position i, 0 for no match
after_name(t, i, name) ==
    IF i + 2 > Len(t) \/ <<t[i], t[i + 1], t[i + 2]>> # <<QUOTE, name, QUOTE>> THEN 0
    ELSE LET c == skip_ws(t, i + 3)
         IN IF c > Len(t) \/ t[c] # ":" THEN 0
            ELSE LET q == skip_ws(t, c + 1)
                 IN IF q > Len(t) \/ t[q] # QUOTE THEN 0 ELSE q + 1

\* str.replace of a two-character run by one character, of one character
RECURSIVE replace_pair(_, _, _)
replace_pair(t, pair, ch) ==
    IF Len(t) < 2 THEN t
    ELSE IF <<t[1], t[2]>> = pair THEN <<ch>> \o replace_pair(drop(t, 2), pair, ch)
    ELSE <<t[1]>> \o replace_pair(Tail(t), pair, ch)
replace_char(t, old, new) == [i \in DOMAIN t |-> IF t[i] = old THEN new ELSE t[i]]

\* extract_field of _repair_json_string: the first match of the first
\* pattern, else the first match of the second, else the fallback
extract_field(t, name, fallback) ==
    LET match(end(_, _)) == {i \in DOMAIN t : after_name(t, i, name) # 0
                                             /\ end(t, after_name(t, i, name)) # 0}
        strict == match(closing_quote)
        loose == match(lazy_quote)
        group(i, end(_, _)) == SubSeq(t, after_name(t, i, name), end(t, after_name(t, i, name)) - 1)
        first(S) == CHOOSE i \in S : \A j \in S : i <= j
    IN IF strict # {}
       THEN replace_pair(group(first(strict), closing_quote), <<BACKSLASH, QUOTE>>, QUOTE)
       ELSE IF loose # {}
       THEN replace_char(group(first(loose), lazy_quote), QUOTE, "'")
       ELSE fallback

\* the fallbacks of the required fields in _repair_json_string
Fallbacks ==
    (<<"scam_name">> :> <<"Unknown Scam">>)
        @@ (<<"story_hook">> :> <<"Details unavailable.">>)
        @@ (<<"red_flag">> :> <<"Be cautious of suspicious requests.">>)
        @@ (<<"the_fix">> :> <<"Contact authorities immediately.">>)

\* ResearchAgent._repair_json_string: a dict in every case (the required
\* fields; the optional ones are not followed)
repair_json_string(text) ==
    [obj |-> [k \in FactKeys |-> [str |-> extract_field(text, k[1], Fallbacks[k])]]]

\* ResearchAgent._extract_json: the strategies in order
extract_json(response) ==
    LET cleaned == research_strip_fences(response)
        json_str == regex_object(cleaned)
        direct == json_loads(cleaned)
        matched == json_loads(json_str)
        fixed == json_loads(fix_json(json_str))
        whole == json_loads(fix_json(cleaned))
    IN IF direct.ok THEN direct.value
       ELSE IF json_str # <<>> /\ matched.ok THEN matched.value
       ELSE IF json_str # <<>> /\ fixed.ok THEN fixed.value
       ELSE IF whole.ok THEN whole.value
       ELSE repair_json_string(cleaned)

\* ResearchAgent.parse_response: FactSheet(...) wants strings
research_parse_response(response) ==
    LET built == build(extract_json(response), FactKeys)
    IN IF built.ok /\ \E k \in FactKeys : "str" \notin DOMAIN built.output[k]
       THEN [ok |-> FALSE, error |-> "ValidationError"]
       ELSE built

\* characters of the string values of a model output, and the values
StrChars == {"x", "{", "}", QUOTE}
Strs == SeqsUpTo(StrChars, MaxStr)

\* a string as JSON text
RECURSIVE encode(_)
encode(str) ==
    IF str = <<>> THEN <<>>
    ELSE (IF str[1] \in {QUOTE, BACKSLASH} THEN <<BACKSLASH, str[1]>> ELSE <<str[1]>>)
             \o encode(Tail(str))
quoted(str) == <<QUOTE>> \o encode(str) \o <<QUOTE>>

\* a director output as JSON text up to the value of visual_prompt in its
\* scene, that text in full, and the record it stands for
DirectorHead(project_id) ==
    <<"{">> \o quoted(<<"project_id">>) \o <<":">> \o quoted(project_id) \o <<",">>
        \o quoted(<<"master_script">>) \o <<":">> \o quoted(<<"x">>) \o <<",">>
        \o quoted(<<"scene_breakdown">>) \o <<":", "[", "{">>
        \o quoted(<<"visual_prompt">>) \o <<":">>
DirectorText(project_id, visual_prompt) ==
    DirectorHead(project_id) \o quoted(visual_prompt) \o <<"}", "]", "}">>
DirectorRecord(project_id, visual_prompt) ==
    (<<"project_id">> :> [str |-> project_id])
        @@ (<<"master_script">> :> [str |-> <<"x">>])
        @@ (<<"scene_breakdown">> :>
               [arr |-> <<[obj |-> (<<"visual_prompt">> :> [str |-> visual_prompt])]>>])

\* a fact sheet as JSON text up to the value of the_fix, in full, and the
\* record
FactHead(scam_name) ==
    <<"{">> \o quoted(<<"scam_name">>) \o <<":">> \o quoted(scam_name) \o <<",">>
        \o quoted(<<"story_hook">>) \o <<":">> \o quoted(<<"x">>) \o <<",">>
        \o quoted(<<"red_flag">>) \o <<":">> \o quoted(<<"x">>) \o <<",">>
        \o quoted(<<"the_fix">>) \o <<":">>
FactText(scam_name, the_fix) == FactHead(scam_name) \o quoted(the_fix) \o <<"}">>
FactRecord(scam_name, the_fix) ==
    (<<"scam_name">> :> [str |-> scam_name])
        @@ (<<"story_hook">> :> [str |-> <<"x">>])
        @@ (<<"red_flag">> :> [str |-> <<"x">>])
        @@ (<<"the_fix">> :> [str |-> the_fix])

\* the valid objects a model answers with
Objects ==
    {[kind |-> "director", text |-> DirectorText(a, b), record |-> DirectorRecord(a, b),
      head |-> DirectorHead(a), last |-> b] : a \in {<<"x">>}, b \in Strs}
    \cup {[kind |-> "director", text |-> DirectorText(a, b), record |-> DirectorRecord(a, b),
           head |-> DirectorHead(a), last |-> b] : a \in Strs, b \in {<<"x">>}}
    \cup {[kind |-> "research", text |-> FactText(a, b), record |-> FactRecord(a, b),
           head |-> FactHead(a), last |-> b] : a \in {<<"x">>}, b \in Strs}

\* what a model puts around the object: prose before, a fence with or
\* without the json tag, prose after
Leads == {<<>>, <<"x", " ">>, <<"{", " ">>, <<QUOTE, " ">>}
Trails == {<<>>, <<" ", "x">>, <<" ", "}">>}
Fences == {<<>>, <<FENCE>>, <<FENCE, "json">>}
wrap(text, lead, fence, trail) ==
    lead \o fence \o (IF fence = <<>> THEN text ELSE <<" ">> \o text \o <<" ", FENCE>>) \o trail

\* the answers of a model: an object as it is or wrapped; an object cut
\* inside its last string value; text with no object in it
Responses ==
    {[shape |-> "whole", object |-> o, lead |-> lead, fence |-> fence, trail |-> trail,
      text |-> wrap(o.text, lead, fence, trail)] :
        o \in Objects, lead \in Leads, fence \in Fences, trail \in Trails}
    \cup UNION {{[shape |-> "cut", object |-> o,
                  text |-> o.head \o <<QUOTE>> \o SubSeq(encode(o.last), 1, n)] :
                    n \in 0 .. Len(encode(o.last))} : o \in Objects}
    \cup {[shape |-> "junk", text |-> t] :
            t \in {<<>>, <<" ">>, <<"x">>, <<FENCE, FENCE>>, <<"{", "x">>, <<"x", "}">>}}

\* a parse_response call on an answer, by the director or the research
\* agent, and a _fix_truncated_json call on it
DirectorParse ==
    /\ call # Null
    /\ call.fn = "parse_response"
    /\ call.status = "running"
    /\ call' = [call EXCEPT !.status = "returned", !.by = "director",
                            !.text = extract_json_from_response(call.response.text),
                            !.result = director_parse_response(call.response.text)]
    /\ UNCHANGED <<state, agent, heap, held, pc, err>>

ResearchParse ==
    /\ call # Null
    /\ call.fn = "parse_response"
    /\ call.status = "running"
    /\ call' = [call EXCEPT !.status = "returned", !.by = "research",
                            !.text = research_strip_fences(call.response.text),
                            !.result = research_parse_response(call.response.text)]
    /\ UNCHANGED <<state, agent, heap, held, pc, err>>

FixTruncatedJson ==
    /\ call # Null
    /\ call.fn = "parse_response"
    /\ call.status = "running"
    /\ LET fixed == fix_truncated_json(call.response.text)
       IN call' = [call EXCEPT !.status = "returned", !.by = "fix",
                               !.text = fixed, !.result = json_loads(fixed)]
    /\ UNCHANGED <<state, agent, heap, held, pc, err>>


---------------------------------------------------------------------------

---------------------------------------------------------------------------
(* The sensitivity stage on a model's answer, and the video inputs of the *)
(* package (sensitivity_agent.py, pipeline.py:455-546)                    *)

\* schemas.SensitivityCheckOutput with its flags (each a SensitivityFlag,
\* followed by its severity) and its summary
ComplianceReport(passed, flags, compliance_summary) ==
    [passed |-> passed, flags |-> flags, compliance_summary |-> compliance_summary]

\* a report that fails the content, in the place of the default
blocking_default == ComplianceReport(FALSE, <<>>, "parsing fell back to defaults")

\* the report parse_response returns when the answer does not parse
safe_default == ComplianceReport(TRUE, <<>>, "parsing fell back to defaults")

\* dict.get(key, default) on a decoded object
get(data, key, default) ==
    IF <<key>> \in DOMAIN data.obj THEN data.obj[<<key>>] ELSE default

\* SensitivityCheckAgent._extract_json: the fences, then json.loads on the
\* text, on the span from the first to the last brace, on that span fixed
\* and on the text fixed; the last json.loads raises
sensitivity_extract_json(response) ==
    LET cleaned == research_strip_fences(response)
        json_str == regex_object(cleaned)
        direct == json_loads(cleaned)
        matched == json_loads(json_str)
        fixed == json_loads(fix_json(json_str))
    IN IF direct.ok THEN direct
       ELSE IF json_str # <<>> /\ matched.ok THEN matched
       ELSE IF json_str # <<>> /\ fixed.ok THEN fixed
       ELSE json_loads(fix_json(cleaned))

\* SensitivityFlag(severity=...): the Literal["warning", "critical"]
Severities == {<<"warning">>, <<"critical">>}

\* SensitivityCheckAgent.parse_response: JSONDecodeError and ValueError
\* (pydantic's ValidationError is one) give the default report; .get on a
\* value that is no dict raises AttributeError, which is not caught here
sensitivity_parse_response(response) ==
    LET decoded == sensitivity_extract_json(response)
        data == decoded.value
        flags == get(data, "flags", [arr |-> <<>>])
        passed == get(data, "passed", [bool |-> TRUE])
        severity(flag_data) == get(flag_data, "severity", [str |-> <<"warning">>])
        default == [raised |-> FALSE, output |-> safe_default]
    IN IF ~decoded.ok THEN default
       ELSE IF "obj" \notin DOMAIN data THEN [raised |-> TRUE, error |-> "AttributeError"]
       ELSE IF "arr" \notin DOMAIN flags THEN [raised |-> TRUE, error |-> "TypeError"]
       ELSE IF \E i \in DOMAIN flags.arr : "obj" \notin DOMAIN flags.arr[i]
       THEN [raised |-> TRUE, error |-> "AttributeError"]
       ELSE IF \E i \in DOMAIN flags.arr :
                  \/ "str" \notin DOMAIN severity(flags.arr[i])
                  \/ severity(flags.arr[i]).str \notin Severities
       THEN default
       ELSE IF "bool" \notin DOMAIN passed THEN default
       ELSE [raised |-> FALSE,
             output |-> ComplianceReport(passed.bool,
                                         [i \in DOMAIN flags.arr |->
                                             [severity |-> severity(flags.arr[i]).str[1]]],
                                         "Compliance check completed.")]

\* SensitivityCheckAgent.process: one backend call, every exception turned
\* into success = false
sensitivity_process(out, response) ==
    LET parsed == sensitivity_parse_response(response)
    IN IF out # "ok" THEN AgentResult(FALSE, Null, "BackendError", 1)
       ELSE IF parsed.raised THEN AgentResult(FALSE, Null, parsed.error, 1)
       ELSE AgentResult(TRUE, parsed.output, "", 1)

\* SensitivityCheckAgent.has_critical_issues
has_critical_issues(output) ==
    \E i \in DOMAIN output.flags : output.flags[i].severity = "critical"

\* a compliance answer as JSON text: passed is "true", "false" or left out
\* (""), flags is a list of severities ("" for a flag without one), left
\* out when listed is false
FlagText(severity) ==
    <<"{">> \o (IF severity = "" THEN <<>>
                ELSE quoted(<<"severity">>) \o <<":">> \o quoted(<<severity>>)) \o <<"}">>
RECURSIVE FlagsText(_)
FlagsText(flags) ==
    IF flags = <<>> THEN <<>>
    ELSE FlagText(flags[1]) \o (IF Len(flags) > 1 THEN <<",">> ELSE <<>>) \o FlagsText(Tail(flags))
ComplianceText(passed, listed, flags) ==
    <<"{">>
        \o (IF passed = "" THEN <<>> ELSE quoted(<<"passed">>) \o <<":", passed>>)
        \o (IF passed # "" /\ listed THEN <<",">> ELSE <<>>)
        \o (IF listed
            THEN quoted(<<"flags">>) \o <<":", "[">> \o FlagsText(flags) \o <<"]">>
            ELSE <<>>)
        \o <<"}">>

\* the answers of the model to the compliance prompt: a report, alone or
\* in a fence; a report cut short; text with no JSON in it; a JSON value
\* that is no object
ComplianceAnswers ==
    {[shape |-> "report", passed |-> passed, flags |-> flags,
      text |-> wrap(ComplianceText(passed, TRUE, flags), <<>>, fence, <<>>)] :
        passed \in {"", "true", "false"},
        flags \in SeqsUpTo({"", "warning", "critical", "high"}, MaxFlags),
        fence \in {<<>>, <<FENCE, "json">>}}
    \cup {[shape |-> "report", passed |-> passed, flags |-> <<>>,
           text |-> ComplianceText(passed, FALSE, <<>>)] : passed \in {"", "true", "false"}}
    \cup UNION {{[shape |-> "unparseable", passed |-> passed, flags |-> <<"critical">>,
                  text |-> SubSeq(ComplianceText(passed, TRUE, <<"critical">>), 1, n)] :
                    n \in {0, 1, 5, Len(ComplianceText(passed, TRUE, <<"critical">>)) - 1}} :
                 passed \in {"true", "false"}}
    \cup {[shape |-> "unparseable", passed |-> "", flags |-> <<>>, text |-> t] :
            t \in {<<"x">>, <<FENCE, FENCE>>, <<"x", "}">>}}
    \cup {[shape |-> "list", passed |-> "", flags |-> <<>>, text |-> <<"[", "]">>]}

\* check_sensitivity from the agent's result on: the backend raises, or the
\* model gives one of ComplianceAnswers; answer is kept with the result
CheckSensitivityResult(answer, result) ==
    /\ pc.phase = "run" /\ pc.op = "check_sensitivity"
    /\ state' = check_sensitivity_end(state, result)
    /\ pc' = Returned(pc.op, pc.args, pc.prior,
                      IF result.success THEN "ok" ELSE "RuntimeError",
                      result.error, result.output, result.calls)
                @@ [answer |-> answer]
    /\ UNCHANGED <<agent, heap, held, err, call>>

\* check_sensitivity completing on the outcome of one sensitivity call
CheckSensitivityAnswer ==
    \E answer \in {Null} \cup ComplianceAnswers :
        CheckSensitivityResult(answer, IF answer = Null
                                       THEN sensitivity_process("error", <<>>)
                                       ELSE sensitivity_process("ok", answer.text))

\* schemas.Language, in the order of the enum: the member's name and value
Language ==
    << [name |-> <<"M","A","L","A","Y">>,
        value |-> <<"B","a","h","a","s","a"," ","M","e","l","a","y","u">>],
       [name |-> <<"M","A","L","A","Y","_","U","R","B","A","N">>,
        value |-> <<"B","a","h","a","s","a"," ","M","e","l","a","y","u"," ","(","U","r","b","a","n",")">>],
       [name |-> <<"E","N","G","L","I","S","H">>,
        value |-> <<"E","n","g","l","i","s","h">>],
       [name |-> <<"C","H","I","N","E","S","E","_","M","A","N","D","A","R","I","N">>,
        value |-> <<"C","h","i","n","e","s","e"," ","(","M","a","n","d","a","r","i","n",")">>],
       [name |-> <<"C","H","I","N","E","S","E","_","C","A","N","T","O","N","E","S","E">>,
        value |-> <<"C","h","i","n","e","s","e"," ","(","C","a","n","t","o","n","e","s","e",")">>],
       [name |-> <<"T","A","M","I","L">>,
        value |-> <<"T","a","m","i","l">>] >>

ENGLISH == Language[3]

\* _find_language_enum: the first member whose value is lang_name or whose
\* name is lang_name up to case; Language.ENGLISH when there is none
find_language_enum(lang_name) ==
    LET matches == {i \in DOMAIN Language :
                       \/ Language[i].value = lang_name
                       \/ lower(Language[i].name) = lower(lang_name)}
    IN IF matches = {} THEN ENGLISH
       ELSE Language[CHOOSE i \in matches : \A j \in matches : i <= j]

\* _get_language_code
get_language_code(language) ==
    CASE language = Language[1] -> "bm"
      [] language = Language[2] -> "bm"
      [] language = Language[3] -> "en"
      [] language = Language[4] -> "zh"
      [] language = Language[5] -> "zh_yue"
      [] language = Language[6] -> "ta"
      [] OTHER -> "en"

\* the keys of LinguisticOutput.translations: the model's, and the value
\* of the primary language; here the two Malay variants, English, Tamil by
\* its lower-case name, and a name that is no member of Language
TranslationKeys ==
    {Language[1].value, Language[2].value, Language[3].value,
     <<"t","a","m","i","l">>, <<"H","i","n","d","i">>}

\* translations as the list of its keys in the order of the dict, one or
\* two language versions
Translations ==
    {<<k>> : k \in TranslationKeys}
        \cup {t \in {Language[1].value, Language[3].value} \X TranslationKeys : t[1] # t[2]}

\* the VisualAudioAgentInput that assemble_video_package builds from the
\* translation under lang_name: scenes stands for the translated scenes
VisualAudioAgentInput(lang_name, project_id, fact_sheet, sensitivity_output) ==
    LET language == find_language_enum(lang_name)
    IN [project_id |-> <<project_id, get_language_code(language)>>,
        meta_data |-> [language |-> language],
        scenes |-> lang_name,
        fact_sheet_reference |-> fact_sheet,
        sensitivity_cleared |-> sensitivity_output.passed]

\* the loop of assemble_video_package: video_inputs[lang_code] = ...,
\* a later translation with the same code replacing an earlier one
RECURSIVE video_inputs(_, _, _, _)
video_inputs(translations, project_id, fact_sheet, sensitivity_output) ==
    IF translations = <<>> THEN <<>>
    ELSE LET n == Len(translations)
             entry == VisualAudioAgentInput(translations[n], project_id,
                                            fact_sheet, sensitivity_output)
         IN (get_language_code(entry.meta_data.language) :> entry)
                @@ video_inputs(SubSeq(translations, 1, n - 1), project_id,
                                fact_sheet, sensitivity_output)

\* the package with its video inputs and its sensitivity report
VideoPackage(fact_sheet, translations, sensitivity_output, project_id) ==
    MultiLanguageVideoPackage(fact_sheet, sensitivity_output)
        @@ [video_inputs |-> video_inputs(translations, project_id, fact_sheet, sensitivity_output),
            sensitivity_report |-> sensitivity_output]

\* assemble_video_package on the report that check_sensitivity returned
\* (the caller passes it on: pipeline.py:1094, routes.py:760)
AssemblePackage ==
    /\ pc = Idle
    /\ state # Null
    /\ state.sensitivity_output # Null
    /\ \E fs \in FactArgs, translations \in Translations :
          LET sens == state.sensitivity_output
              args == [fact_sheet |-> fs, sensitivity_output |-> sens,
                       linguistic_output |-> [translations |-> translations]]
              package == VideoPackage(fs, translations, sens, 1)
          IN IF ~fs.verified_by_officer
             THEN /\ pc' = Returned("assemble_video_package", args, "none",
                                    "ValueError", "PreconditionError", Null, 0)
                  /\ UNCHANGED state
             ELSE /\ state' = [assemble_video_package(state, fs, sens) EXCEPT
                                  !.video_package = package]
                  /\ pc' = Returned("assemble_video_package", args, "none", "ok", "",
                                    package, 0)
    /\ UNCHANGED <<agent, heap, held, err, call>>

---------------------------------------------------------------------------
(* The research stage on a model's answer (research_agent.py:199-234,     *)
(* 547-605)                                                               *)

\* the content value a string of a model's answer stands for (contents are
\* numbered by length)
Content(str) == Len(str)

\* FactSheet(...) built with the flag the model's answer states
parse_fact_sheet_trusting(response) ==
    LET parsed == research_parse_response(response)
        data == json_loads(research_strip_fences(response))
        stated == IF data.ok /\ "obj" \in DOMAIN data.value
                     /\ <<"verified_by_officer">> \in DOMAIN data.value.obj
                  THEN data.value.obj[<<"verified_by_officer">>].bool
                  ELSE FALSE
    IN IF parsed.ok
       THEN [ok |-> TRUE,
             output |-> [FactSheet(Content(parsed.output[<<"scam_name">>].str))
                            EXCEPT !.verified_by_officer = stated]]
       ELSE parsed

\* ResearchAgent.parse_response as a FactSheet: the four required fields
\* from the answer (scam_name followed), verified_by_officer=False
parse_fact_sheet(response) ==
    LET parsed == research_parse_response(response)
    IN IF parsed.ok
       THEN [ok |-> TRUE, output |-> FactSheet(Content(parsed.output[<<"scam_name">>].str))]
       ELSE parsed

\* ResearchAgent.process: one backend call, every exception turned into
\* success = false
research_process(out, response) ==
    LET parsed == parse_fact_sheet(response)
    IN IF out # "ok" THEN AgentResult(FALSE, Null, "BackendError", 1)
       ELSE IF ~parsed.ok THEN AgentResult(FALSE, Null, parsed.error, 1)
       ELSE AgentResult(TRUE, parsed.output, "", 1)

\* a fact sheet as JSON text in which the model may state
\* verified_by_officer ("" for leaving it out)
FactAnswerText(scam_name, verified) ==
    FactHead(scam_name) \o quoted(<<"x">>)
        \o (IF verified = "" THEN <<>>
            ELSE <<",">> \o quoted(<<"verified_by_officer">>) \o <<":", verified>>)
        \o <<"}">>

\* the answers of the model to the research prompt: a fact sheet, alone or
\* in a fence; a fact sheet cut short; a JSON value that is no object
FactAnswers ==
    {[shape |-> "fact_sheet", verified |-> verified,
      text |-> wrap(FactAnswerText(scam_name, verified), <<>>, fence, <<>>)] :
        scam_name \in {<<"x">>, <<"x", "x">>},
        verified \in {"", "true", "false"},
        fence \in {<<>>, <<FENCE, "json">>}}
    \cup {[shape |-> "cut", verified |-> "true",
           text |-> SubSeq(FactAnswerText(<<"x">>, "true"), 1,
                           Len(FactAnswerText(<<"x">>, "true")) - 1)]}
    \cup {[shape |-> "list", verified |-> "", text |-> <<"[", "]">>]}

\* process_intake from the agent's result on: the backend raises, or the
\* model gives one of FactAnswers; answer is kept with the result
ProcessIntakeResult(answer, result) ==
    /\ pc.phase = "run" /\ pc.op = "process_intake"
    /\ state' = process_intake_end(state, result)
    /\ pc' = Returned(pc.op, pc.args, pc.prior,
                      IF result.success THEN "ok" ELSE "RuntimeError",
                      result.error, result.output, result.calls)
                @@ [answer |-> answer]
    /\ UNCHANGED <<agent, heap, held, err, call>>

\* process_intake completing on the outcome of one research call
ProcessIntakeAnswer ==
    \E answer \in {Null} \cup FactAnswers :
        ProcessIntakeResult(answer, IF answer = Null
                                    THEN research_process("error", <<>>)
                                    ELSE research_process("ok", answer.text))

Init ==
    /\ state = Null
    /\ agent = VisualAudioPipelineState
    /\ heap = [i \in ObjIds |-> 0]
    /\ held = Null
    /\ pc = Idle
    /\ err = Null
    /\ call = Null

Next ==
    \/ NewSession
    \/ ProcessIntakeCall
    \/ ProcessIntakeReturn
    \/ VerifyFactSheet
    \/ GenerateScriptCall
    \/ GenerateScriptReturn
    \/ GenerateTranslationsCall
    \/ GenerateTranslationsReturn
    \/ CheckSensitivityCall
    \/ CheckSensitivityReturn
    \/ AssembleVideoPackage
    \/ GenerateSocialStrategyCall
    \/ GenerateSocialStrategyReturn
    \/ Ack

Spec == Init /\ [][Next]_vars

\* the orchestrator driven for video assets only
NextVA ==
    \/ NewSession
    \/ GenerateVideoAssetsStepwiseCall
    \/ GenerateVideoAssetsStepwiseReturn
    \/ GenerateVideoAssetsCall
    \/ GenerateVideoAssetsReturn
    \/ Ack

SpecVA == Init /\ [][NextVA]_vars

\* the same, with a caller that keeps what the runs to "char_refs" return
KeepCharRefs ==
    /\ pc.phase = "ret"
    /\ pc.op = "generate_video_assets_stepwise"
    /\ pc.args.stop_after = "char_refs"
    /\ Keep

NextResume == NextVA \/ KeepCharRefs

SpecResume == Init /\ [][NextResume]_vars

\* a backend call has raised; the exception is classified
InitRetry ==
    /\ state = Null
    /\ agent = VisualAudioPipelineState
    /\ heap = [i \in ObjIds |-> 0]
    /\ held = Null
    /\ pc = Idle
    /\ err \in Errors
    /\ call = Null

NextRetry == Classify

SpecRetry == InitRetry /\ [][NextRetry]_vars

\* image calls, each run to its end: every backend call returns or raises
NextImage == CallImageSync \/ ImageAttempt

SpecImage == Init /\ [][NextImage]_vars /\ WF_vars(ImageAttempt)

\* the two polling loops; every status request is answered
NextPoll == PollDeepResearch \/ PollAttempt \/ GenerateVeoClipSync \/ VeoPoll

SpecPoll == Init /\ [][NextPoll]_vars /\ WF_vars(PollAttempt) /\ WF_vars(VeoPoll)

\* the streaming endpoint: the research task and the generator interleave
NextStream == SubmitIntakeStream \/ StreamChunk \/ QueueGet

SpecStream == Init /\ [][NextStream]_vars

\* the stage agents' process(), attempt by attempt
NextStage == StageProcess \/ StageAttempt

SpecStage == Init /\ [][NextStage]_vars

\* a model has answered; its answer is parsed
InitParse ==
    /\ state = Null
    /\ agent = VisualAudioPipelineState
    /\ heap = [i \in ObjIds |-> 0]
    /\ held = Null
    /\ pc = Idle
    /\ err = Null
    /\ call \in {[fn |-> "parse_response", status |-> "running", response |-> r,
                  by |-> "", text |-> <<>>, result |-> Null] : r \in Responses}

NextParse == DirectorParse \/ ResearchParse \/ FixTruncatedJson

SpecParse == InitParse /\ [][NextParse]_vars

\* the sensitivity check on a model's answer and the assembly that follows
NextPackage ==
    \/ NewSession
    \/ CheckSensitivityCall
    \/ CheckSensitivityAnswer
    \/ AssemblePackage
    \/ Ack

SpecPackage == Init /\ [][NextPackage]_vars

\* intake on a model's answer, verification and the script stage
NextIntake ==
    \/ NewSession
    \/ ProcessIntakeCall
    \/ ProcessIntakeAnswer
    \/ VerifyFactSheet
    \/ GenerateScriptCall
    \/ GenerateScriptReturn
    \/ Ack

SpecIntake == Init /\ [][NextIntake]_vars

\* every stage of a session, called in any order (the visual/audio stage
\* by generate_video_assets)
NextLifecycle ==
    \/ NewSession
    \/ ProcessIntakeCall
    \/ ProcessIntakeReturn
    \/ GenerateScriptCall
    \/ GenerateScriptReturn
    \/ GenerateTranslationsCall
    \/ GenerateTranslationsReturn
    \/ CheckSensitivityCall
    \/ CheckSensitivityReturn
    \/ GenerateSocialStrategyCall
    \/ GenerateSocialStrategyReturn
    \/ GenerateVideoAssetsCall
    \/ GenerateVideoAssetsReturn
    \/ Ack

SpecLifecycle == Init /\ [][NextLifecycle]_vars

\* the stepwise method called for the language versions of a package,
\* within a session and across sessions
NextReuse ==
    \/ NewSession
    \/ GenerateVideoAssetsStepwiseVersion
    \/ GenerateVideoAssetsStepwiseReturn
    \/ Ack

SpecReuse == Init /\ [][NextReuse]_vars

\* the server: sessions are created and their requests interleave
NextSessions == SubmitIntake \/ GeneratePackage \/ VideoAssets \/ VideoAssetsStage

SpecSessions == Init /\ [][NextSessions]_vars

\* intake, verification by any officer and the fact-sheet chat
NextVerify ==
    \/ NewSession
    \/ ProcessIntakeCall
    \/ ProcessIntakeReturn
    \/ VerifyFactSheetAny
    \/ ChatRefine
    \/ Ack

SpecVerify == Init /\ [][NextVerify]_vars

\* a caller keeps the script an operation returned
KeepScript ==
    /\ pc.phase = "ret"
    /\ pc.op \in {"generate_script", "refine_script", "chat_about_video_package"}
    /\ Keep

\* the script and its refinements, with a caller that keeps results
NextRefine ==
    \/ NewSession
    \/ VerifyFactSheet
    \/ GenerateScriptCall
    \/ GenerateScriptReturn
    \/ RefineScript
    \/ ChatAboutVideoPackage
    \/ KeepScript
    \/ Ack

SpecRefine == Init /\ [][NextRefine]_vars

---------------------------------------------------------------------------
(* Properties of the orchestrator (checked under Spec) *)

\* every possible answer sequence of the backend to one process() call
BackendAnswers == [1 .. StageAttempts -> Outcomes]

\* C1 (stage gate): a generate_script call whose fact sheet has
\* verified_by_officer = false never reaches the director agent: it returns
\* at once with a ValueError (the precondition error), zero backend calls
\* and the PipelineState exactly as it was (director_status,
\* director_output and creator_config included); DirectorAgent.process on
\* that fact sheet returns success = false with zero backend calls whatever
\* the backend would have answered.
C1_StageGate ==
    [][(pc'.phase # "idle" /\ pc'.op = "generate_script"
            /\ ~pc'.args.fact_sheet.verified_by_officer)
        => /\ pc'.phase = "ret"
           /\ pc'.outcome = "ValueError"
           /\ pc'.error = "PreconditionError"
           /\ pc'.calls = 0
           /\ state' = state
           /\ \A outs \in BackendAnswers :
                 LET r == DirectorProcess(pc'.args.fact_sheet, outs, Null)
                 IN ~r.success /\ r.calls = 0 /\ r.output = Null]_vars

\* the gate has refused a call in a session whose script stage had completed
C1_Witness ==
    /\ pc.phase = "ret" /\ pc.op = "generate_script"
    /\ pc.outcome = "ValueError"
    /\ ~pc.args.fact_sheet.verified_by_officer
    /\ state # Null
    /\ state.director_status = COMPLETED
    /\ state.director_output # Null

\* C2 (dependency invariant): a stage status is COMPLETED only if the stages
\* it depends on are: director_status = COMPLETED implies the fact sheet held
\* in state is verified, linguistic_status = COMPLETED implies
\* director_status = COMPLETED, sensitivity_status = COMPLETED implies
\* linguistic_status = COMPLETED.  The orchestrator does not keep this:
\* generate_translations and check_sensitivity never look at the upstream
\* status, and process_intake replaces a verified fact sheet with an
\* unverified one while director_status stays COMPLETED.
C2_Dependency ==
    state # Null =>
        /\ state.director_status = COMPLETED
              => (state.fact_sheet # Null /\ state.fact_sheet.verified_by_officer)
        /\ state.linguistic_status = COMPLETED => state.director_status = COMPLETED
        /\ state.sensitivity_status = COMPLETED => state.linguistic_status = COMPLETED

\* the output slot each stage operation commits to
OutputField ==
    [process_intake |-> "fact_sheet",
     verify_fact_sheet |-> "fact_sheet",
     generate_script |-> "director_output",
     generate_translations |-> "linguistic_output",
     check_sensitivity |-> "sensitivity_output",
     generate_video_assets |-> "visual_audio",
     generate_video_assets_stepwise |-> "visual_audio",
     generate_social_strategy |-> "social_output"]

StatusFields == {StatusField[op] : op \in DOMAIN StatusField}
OutputSlots == {OutputField[op] : op \in DOMAIN OutputField} \cup {"scam_report", "video_package"}

\* the slot and the status of the stage an operation belongs to
Own(op) == IF op \in DOMAIN StatusField THEN {StatusField[op], OutputField[op]} ELSE {}

\* a field of the state by value: a director output with its scenes' contents
Value(st, h, f) == IF f = "director_output" THEN Dump(st.director_output, h) ELSE st[f]

\* a step of an operation on the session's PipelineState object
StepOfOperation ==
    /\ state # Null /\ state' # Null
    /\ pc'.phase # "idle"
    /\ pc'.op # "new_session"

LifecycleChanges ==
    {<<PENDING, IN_PROGRESS>>, <<IN_PROGRESS, COMPLETED>>,
     <<IN_PROGRESS, FAILED>>, <<FAILED, IN_PROGRESS>>}

AgentStatusFields == StatusFields \ {"fact_sheet_status"}

---------------------------------------------------------------------------
(* Properties of the visual/audio sub-pipeline (checked under SpecVA, C6  *)
(* under SpecResume)                                                       *)

\* a stage invocation fails on this step
FailingReturn == pc.phase = "run" /\ pc'.phase = "ret" /\ pc'.outcome # "ok"

\* C3 (commit only on success), for the step on which a stage invocation
\* fails: no field of the PipelineState other than the invoked stage's
\* status changes, and the stage's output slot shows exactly the content it
\* showed before.  generate_video_assets_stepwise breaks this: the slot
\* holds the agent's own state object, which the sub-stages of the failed
\* invocation have written to.
C3_CommitOnSuccess ==
    [][(FailingReturn /\ state # Null) =>
        /\ \A f \in DOMAIN state \ {StatusField[pc'.op]} : state'[f] = state[f]
        /\ VisualAudio(state', agent') = VisualAudio(state, agent)]_vars

\* the output of sub-stage k is in the agent's state
Exists(a, k) == IF k = NumStages THEN a.veo_clips # {} ELSE Has(a, k)

\* C7 (every sub-stage reused): an invocation of
\* generate_video_assets_stepwise starts the generation of no sub-stage
\* whose output already exists, so a full invocation after a completed one
\* starts none.  The video-clip sub-stage breaks this: it is run on every
\* full invocation.
C7_EverySubStageReused ==
    [][(pc.phase = "run" /\ pc.op = "generate_video_assets_stepwise" /\ pc'.phase = "ret")
        => \A k \in 1 .. NumStages : Exists(agent, k) => k \notin pc'.issued]_vars

\* the second of two invocations returns on this step: the caller kept the
\* result of a run to "char_refs", the session still holds that state, and
\* the run to "clip_refs" was made on it
ResumedReturn ==
    /\ pc.phase = "run" /\ pc.op = "generate_video_assets_stepwise"
    /\ pc.args.stop_after = "clip_refs"
    /\ pc'.phase = "ret"
    /\ held # Null
    /\ held.op = "generate_video_assets_stepwise"
    /\ held.args.stop_after = "char_refs"
    /\ state # Null
    /\ state.visual_audio = AgentRef
    /\ agent = held.snap

\* what C6 asks of the second invocation: no generation of the story,
\* script, character-description and character-image sub-stages, at most the
\* clip-reference sub-stage, and the character_ref_images of the first run
Resumed ==
    /\ pc'.issued \subseteq {5}
    /\ agent'.character_ref_images = held.snap.character_ref_images

---------------------------------------------------------------------------
(* Verification and refinement *)

\* C8 (verification records the verifier): when verify_fact_sheet returns
\* (no corrections given), the returned fact sheet is marked verified, has a
\* verification timestamp, records the identity of the officer that was
\* passed in (a different officer_id would have produced a different
\* record), has the content of the input fact sheet, and, when a session
\* exists, is the stored fact sheet with fact_sheet_status completed.
C8_VerifyRecords ==
    (pc.phase = "ret" /\ pc.op = "verify_fact_sheet" /\ pc.args.corrections = Null) =>
        /\ pc.ret.verified_by_officer
        /\ pc.ret.verification_timestamp # 0
        /\ \A o \in Officers \ {pc.args.officer_id} :
              verify_fact_sheet(pc.args.fact_sheet, o, pc.args.notes, Null) # pc.ret
        /\ pc.ret.scam_name = pc.args.fact_sheet.scam_name
        /\ state # Null =>
              /\ state.fact_sheet = pc.ret
              /\ state.fact_sheet_status = COMPLETED

\* C9 (outputs are not mutated in place): a script that was returned to a
\* caller reads the same, field for field and scene for scene, after every
\* later operation as it did when it was returned.
C9_NoInPlaceMutation ==
    held # Null => Snapshot(held.obj) = held.snap

---------------------------------------------------------------------------
(* Retry classification *)

\* C10 (retry classification): an error whose message contains "503" or
\* "RESOURCE_EXHAUSTED", in whatever letter case it is written, is
\* classified retryable; an error whose message is an "invalid argument"
\* is classified not retryable.
C10_RetryClassification ==
    (err # Null /\ err.classified) =>
        /\ err.kind \in {"503", "RESOURCE_EXHAUSTED"} => err.retryable
        /\ err.kind = "invalid argument" => ~err.retryable

\* a RESOURCE_EXHAUSTED written in mixed case inside a longer message has
\* been classified retryable
C10_Witness ==
    /\ err # Null
    /\ err.classified
    /\ err.kind = "RESOURCE_EXHAUSTED"
    /\ err.msg # lower(err.msg)
    /\ Len(err.msg) > Len(ErrorText(err.kind))
    /\ err.retryable

\* C11 (classification is exact): an error is classified retryable exactly
\* when it carries a transient-capacity signal (503, 429, unavailable, high
\* demand, resource exhausted, rate limit); an error without one (invalid
\* argument, unauthorized, a request failure saying the content cannot be
\* generated) is classified not retryable.
C11_ExactClassification ==
    (err # Null /\ err.classified) =>
        (err.retryable <=> err.kind \in TransientKinds)

---------------------------------------------------------------------------
(* Transport retries *)

\* the backend call of this step raised an error classified non-retryable
FatalAnswer ==
    /\ call # Null
    /\ call.fn = "_call_image_sync"
    /\ call.status = "running"
    /\ call'.calls = call.calls + 1
    /\ "msg" \in DOMAIN call'.answer
    /\ ~is_retryable(call'.answer.msg)

\* C12 (fatal errors are not retried): when a backend call of
\* _call_image_sync raises an error classified non-retryable, the call ends
\* on that step by raising that error, without a sleep, whatever the
\* attempt; and a call that has ended makes no further backend call.
C12_FatalNotRetried ==
    [][/\ (FatalAnswer =>
              /\ call'.status = "raised"
              /\ call'.error = call'.answer
              /\ call'.sleeps = call.sleeps
              /\ call'.attempt = call.attempt)
        /\ ((call # Null /\ call.status # "running" /\ call' # Null) =>
              (call'.calls = call.calls \/ call'.calls = 0))]_vars

\* a fatal error raised on a late attempt, after retried errors
C12_Witness ==
    /\ call # Null
    /\ call.status = "raised"
    /\ ~is_retryable(call.error.msg)
    /\ call.attempt = 3
    /\ call.sleeps = 3
    /\ call.calls = 4

\* a helper call is in execution
CallRunning == IF call = Null THEN FALSE ELSE call.status = "running"

\* what C13 asks of a call at every moment
BoundedRetries ==
    (call # Null /\ call.fn = "_call_image_sync") =>
        /\ call.calls <= MAX_RETRIES
        /\ (call.status = "returned" =>
              /\ "image" \in DOMAIN call.answer
              /\ call.calls = call.sleeps + 1
              /\ call.ret = (IF call.answer.image THEN [image |-> TRUE] ELSE Null))
        /\ ((call.calls = MAX_RETRIES /\ "msg" \in DOMAIN call.answer) =>
              /\ call.status = "raised"
              /\ call.error = call.answer)

\* C13 (bounded transport retries): _call_image_sync makes at most
\* MAX_RETRIES backend calls and ends; when every call raised a retryable
\* error the last error is raised (None is never returned for a used-up
\* budget); a call answered on attempt k returns that answer after k calls.
C13_BoundedRetries ==
    /\ []BoundedRetries
    /\ (CallRunning ~> ~CallRunning)

\* eight retryable errors in a row: the eighth is raised
C13_Witness ==
    /\ call # Null
    /\ call.status = "raised"
    /\ call.calls = MAX_RETRIES
    /\ call.sleeps = MAX_RETRIES - 1
    /\ is_retryable(call.error.msg)

---------------------------------------------------------------------------
(* Stage retries and stage results *)

\* C14 (transient failures of text calls are retried): when a text stage's
\* process() reports a transient backend error to its caller, the backend
\* call was tried more than once before.
C14_TransientRetried ==
    (call # Null /\ call.fn = "process" /\ call.status = "returned"
        /\ ~call.success /\ call.error = "TransientBackendError")
    => call.transient >= 2

\* C15 (stage retry budget): in DirectorAgent.process and
\* SocialOfficerAgent.process at most three backend calls are made, a new
\* attempt is made only after a malformed-output failure of the backend's
\* text (any other failure, a missing API key included, ends the
\* invocation in the attempt in which it occurs), and after three
\* malformed outputs the result is success = false with the extraction error.
C15_StageRetryBudget ==
    (call # Null /\ call.fn = "process" /\ call.stage \in RetryingStages) =>
        /\ call.calls <= StageAttempts
        /\ ((call.status = "running" /\ call.attempts > 0) =>
              (call.answer \in MalformedAnswers
                  /\ call.error \in {"ExtractionFailure", "ValidationFailure"}))
        /\ ((call.status = "returned" /\ call.answer \in MalformedAnswers
                /\ call.attempts = StageAttempts) =>
              (~call.success /\ call.error \in {"ExtractionFailure", "ValidationFailure"}))

\* C16 (a stage never raises past its boundary): whenever the orchestrator
\* has started a visual/audio stage execution, it receives a stage result:
\* the method returns, or raises its own RuntimeError for a result with
\* success = false; no exception of a sub-stage reaches the caller.
C16_StageResultAlways ==
    (pc.phase = "ret"
        /\ pc.op \in {"generate_video_assets", "generate_video_assets_stepwise"}
        /\ pc.issued # {})
    => pc.outcome \in {"ok", "RuntimeError"}

\* C17 (error kind preserved end to end): when a stage result reports
\* failure, what process_intake, generate_script, generate_translations,
\* check_sensitivity and generate_social_strategy raise to the caller is
\* the stage's error value itself.
C17_ErrorUnchanged ==
    (pc.phase = "ret"
        /\ pc.op \in {"process_intake", "generate_script", "generate_translations",
                      "check_sensitivity", "generate_social_strategy"}
        /\ pc.outcome \notin {"ok", "ValueError"})
    => pc.outcome = pc.error

---------------------------------------------------------------------------
(* Polling *)

ResearchPolling ==
    IF call = Null THEN FALSE
    ELSE call.fn = "_poll_deep_research" /\ call.status = "running"

VeoPolling ==
    IF call = Null THEN FALSE
    ELSE call.fn = "_generate_veo_clip_sync" /\ call.status = "running"

\* what C18 asks of _poll_deep_research at every moment
BoundedPolling ==
    (call # Null /\ call.fn = "_poll_deep_research") =>
        /\ call.polls * DEEP_RESEARCH_POLL_INTERVAL <= DEEP_RESEARCH_MAX_WAIT
        /\ call.polls * DEEP_RESEARCH_POLL_INTERVAL = call.elapsed
        /\ call.seen \cap {"completed", "failed"} = {}
        /\ (call.status = "returned" =>
              (call.answer.status = "completed" /\ call.ret = call.answer.text))
        /\ ((call.answer # Null /\ "status" \in DOMAIN call.answer) =>
              /\ call.answer.status = "completed" => call.status = "returned"
              /\ call.answer.status = "failed" =>
                    (call.status = "raised" /\ call.error = "RuntimeError")
              /\ call.answer.status \notin {"completed", "failed"} =>
                    IF call.elapsed = DEEP_RESEARCH_MAX_WAIT
                    THEN call.status = "raised" /\ call.error = "TimeoutError"
                    ELSE call.status = "running")

C19_VeoPollingEnds == VeoPolling ~> ~VeoPolling

---------------------------------------------------------------------------
(* Streaming *)

Payloads(seq) == [i \in DOMAIN seq |-> seq[i].payload]

IsThought(e) == e.type = "thought"

IsText(e) == e.type = "text"

FromBackend(t) == t.src = "backend"

IsThoughtEvent(e) == e.event = "thought"

IsQueuedThought(item) == "payload" \in DOMAIN item

\* what C20 asks of a streamed intake at every moment
StreamedInOrder ==
    (call # Null /\ call.fn = "submit_intake_stream") =>
        LET consumed == SubSeq(call.stream, 1, call.read)
            yielded == SelectSeq(call.emitted, IsThoughtEvent)
        IN /\ Payloads(SelectSeq(call.sink, FromBackend))
                = Payloads(SelectSeq(consumed, IsThought))
           /\ call.final_text = Payloads(SelectSeq(consumed, IsText))
           /\ [i \in DOMAIN yielded |-> yielded[i].thought]
                \o SelectSeq(call.queue, IsQueuedThought) = call.sink
           /\ yielded = SubSeq(call.emitted, 1, Len(yielded))
           /\ (call.status = "returned" =>
                 /\ call.read = Len(call.stream)
                 /\ Len(call.emitted) = Len(call.sink) + 1
                 /\ call.emitted[Len(call.emitted)].event \in {"result", "error"})

---------------------------------------------------------------------------
(* Interrupted streams *)

\* the research task is over and the last chunk it read was not
\* interaction.complete: an exception, an error event or exhaustion
Interrupted ==
    IF call = Null THEN FALSE
    ELSE /\ call.fn = "submit_intake_stream"
         /\ call.task = "done"
         /\ (call.read = 0 \/ call.stream[call.read].type # "complete")

\* C21 (stream interruption never discards received content): when a
\* stream ends without a completion event and at least one text delta was
\* received, _call_deep_research returns the received text and does not
\* fail; it polls the job handle or fails only when no text was received.
C21_PartialTextKept ==
    Interrupted =>
        IF call.final_text # <<>>
        THEN call.report = [by |-> "stream", text |-> call.final_text]
        ELSE call.report.by \in {"poll", "raise"}

---------------------------------------------------------------------------
(* Sessions *)

\* C22 (session isolation): whatever the other sessions do, every
\* registered session's PipelineState and its agent's state are what the
\* session's own operations alone produce.
C22_SessionIsolation ==
    (call # Null /\ call.fn = "serve") =>
        \A s \in DOMAIN call.sessions :
            /\ call.sessions[s].state = call.alone[s].state
            /\ call.sessions[s].agent = call.alone[s].agent

\* C23 (no two writers share a path): every artifact path is written by at
\* most one request, two requests of one session never both issue the same
\* sub-stage's generation, and no path is written by two sessions.
C23_SingleWriter ==
    (call # Null /\ call.fn = "serve") =>
        /\ \A f, g \in call.files : f.path = g.path => f.by = g.by
        /\ \A r1, r2 \in DOMAIN call.requests :
               (r1 # r2 /\ call.requests[r1].session = call.requests[r2].session)
                   => call.requests[r1].ran \cap call.requests[r2].ran = {}

---------------------------------------------------------------------------
(* Timestamps *)

\* a stage slot (an output or a status) has another value after the step
SlotChanged ==
    \E f \in OutputSlots \cup StatusFields : Value(state', heap', f) # Value(state, heap, f)

\* C24 (updated_at tracks mutations): created_at <= updated_at in every
\* state, updated_at never decreases, and every step of an operation that
\* changes a stage slot leaves updated_at later than it was.
C24_UpdatedAtBumped ==
    /\ [](state # Null => state.created_at <= state.updated_at)
    /\ [][StepOfOperation =>
            /\ state'.updated_at >= state.updated_at
            /\ (SlotChanged => state'.updated_at > state.updated_at)]_vars

---------------------------------------------------------------------------
(* Chat log *)

IsPrefix(p, q) == Len(p) <= Len(q) /\ SubSeq(q, 1, Len(p)) = p

\* C25 (the chat log is append-only and ordered): every step of an
\* operation on a session leaves the chat history it found as a prefix of
\* the chat history it leaves; a chat_refine that returns normally appends
\* exactly two entries, the officer's message and then the agent's
\* response, both with the fact sheet as target.
C25_ChatLogAppendOnly ==
    [][StepOfOperation =>
        /\ IsPrefix(state.chat_history, state'.chat_history)
        /\ ((pc'.op = "chat_refine" /\ pc'.outcome = "ok") =>
              state'.chat_history = state.chat_history \o
                  << [role |-> "officer", content |-> pc'.args.message, target |-> "fact_sheet"],
                     [role |-> "agent", content |-> pc'.ret.response, target |-> "fact_sheet"] >>)]_vars

\* two chat_refine calls have returned normally, with different messages
C25_Witness ==
    /\ state # Null
    /\ pc.phase = "ret"
    /\ pc.op = "chat_refine"
    /\ pc.outcome = "ok"
    /\ Len(state.chat_history) = 4
    /\ state.chat_history[1].content # state.chat_history[3].content

---------------------------------------------------------------------------
(* Extraction and repair of model output *)

\* the answer has been handled by the named function
HandledBy(by) ==
    IF call = Null THEN FALSE
    ELSE call.fn = "parse_response" /\ call.status = "returned" /\ call.by = by

\* the answer is a valid object, alone or within fences, with no prose
Unadorned ==
    /\ call.response.shape = "whole"
    /\ call.response.lead = <<>>
    /\ call.response.trail = <<>>

\* C26 (boundary scan respects string literals): from an answer that is a
\* valid JSON object, alone or fenced, _extract_json_from_response returns
\* the object's text from its first brace to the matching one, braces
\* inside string values not counting; a director output so extracted
\* parses to its record.
C26_BoundaryScan ==
    (HandledBy("director") /\ Unadorned) =>
        /\ call.text = call.response.object.text
        /\ (call.response.object.kind = "director" =>
               call.result = [ok |-> TRUE, output |-> call.response.object.record])

\* C27 (unrecoverable output is a failure): when the answer is empty or
\* has none of the required fields in it, the research agent's
\* parse_response fails, so that process returns success = false and no
\* fact sheet is stored.
C27_UnrecoverableFails ==
    (HandledBy("research") /\ call.response.shape = "junk") => ~call.result.ok

\* the fields of an object that end before its last string value begins
CompleteKeys(o) == DOMAIN o.record \ {<<"the_fix">>, <<"scene_breakdown">>}

\* C28 (truncation repair): of a valid object cut inside a string value,
\* _fix_truncated_json makes text that parses, and every field that was
\* complete before the cut has the value it has in the object.
C28_TruncationRepair ==
    (HandledBy("fix") /\ call.response.shape = "cut") =>
        /\ call.result.ok
        /\ "obj" \in DOMAIN call.result.value
        /\ \A k \in CompleteKeys(call.response.object) :
               /\ k \in DOMAIN call.result.value.obj
               /\ call.result.value.obj[k] = call.response.object.record[k]

\* C29 (fence and prose invariance): an object within fences, tagged or
\* not, with prose before and after it, yields the record that the object
\* alone yields, for the research agent and for the director.
C29_FenceProseInvariance ==
    /\ (HandledBy("research") /\ call.response.shape = "whole"
            /\ call.response.object.kind = "research")
          => call.result = research_parse_response(call.response.object.text)
    /\ (HandledBy("director") /\ call.response.shape = "whole"
            /\ call.response.object.kind = "director")
          => call.result = director_parse_response(call.response.object.text)

---------------------------------------------------------------------------
(* Stage status after an invocation has ended (checked under SpecVA)      *)

\* C30 (no stage left in progress): once an invocation of
\* generate_video_assets or generate_video_assets_stepwise has ended, by
\* returning or by raising, the visual/audio status of the session is not
\* in_progress.  The code leaves it in_progress when generate_video_assets
\* raises for a missing fact sheet reference, when the stepwise method
\* returns at a stop_after checkpoint, and when one of its sub-stages raises.
C30_NoStageLeftInProgress ==
    (pc.phase = "ret"
        /\ pc.op \in {"generate_video_assets", "generate_video_assets_stepwise"}
        /\ state # Null)
    => state[StatusField[pc.op]] # IN_PROGRESS

---------------------------------------------------------------------------
(* The guards of chat_refine (checked under SpecVerify)                   *)

\* chat_refine is called where it must be rejected: no session, no fact
\* sheet, or a fact sheet the officer has verified
RefineRejected ==
    /\ pc.phase = "idle"
    /\ pc'.phase = "ret"
    /\ pc'.op = "chat_refine"
    /\ IF state = Null THEN TRUE
       ELSE IF state.fact_sheet = Null THEN TRUE
       ELSE state.fact_sheet.verified_by_officer

\* C31 (chat_refine is rejected once the fact sheet is verified): with a
\* verified fact sheet, with no fact sheet and with no session, chat_refine
\* raises its ValueError, calls no backend, and leaves the session, its
\* chat history and its fact sheet as they were.
C31_RefineRejectedOnceVerified ==
    [][RefineRejected =>
        /\ pc'.outcome = "ValueError"
        /\ pc'.calls = 0
        /\ state' = state]_vars

\* chat_refine has been rejected on a session whose fact sheet is verified
\* and whose chat history holds an earlier exchange
C31_Witness ==
    /\ state # Null
    /\ pc.phase = "ret"
    /\ pc.op = "chat_refine"
    /\ pc.outcome = "ValueError"
    /\ state.fact_sheet # Null
    /\ state.fact_sheet.verified_by_officer
    /\ Len(state.chat_history) = 2

---------------------------------------------------------------------------
(* The compliance gate on the video package (checked under Spec)         *)

\* C32 (compliance gate on assembly): a video package is assembled and
\* stored only for a sensitivity report that passed; the code has no
\* officer override, so a report with passed = false yields no package.
\* assemble_video_package does not read sensitivity_output.passed other
\* than to copy it into the video inputs.
C32_ComplianceGate ==
    /\ (pc.phase = "ret" /\ pc.op = "assemble_video_package" /\ pc.outcome = "ok")
          => pc.args.sensitivity_output.passed
    /\ (IF state = Null THEN FALSE ELSE state.video_package # Null)
          => state.video_package.sensitivity_cleared

---------------------------------------------------------------------------
(* The compliance report and the video inputs (checked under SpecPackage) *)

\* C33 (passed means no critical flag): every report the sensitivity stage
\* stores has passed = true only if none of its flags is critical, and a
\* video input with sensitivity_cleared = true belongs to a package whose
\* report has no critical flag.  parse_response takes passed and flags
\* from the model's answer independently of each other, and passed
\* defaults to true when the answer leaves it out.
C33_PassedMeansNoCritical ==
    IF state = Null THEN TRUE
    ELSE /\ (state.sensitivity_output # Null /\ state.sensitivity_output.passed)
               => ~has_critical_issues(state.sensitivity_output)
         /\ state.video_package # Null
               => \A code \in DOMAIN state.video_package.video_inputs :
                      state.video_package.video_inputs[code].sensitivity_cleared
                          => ~has_critical_issues(state.video_package.sensitivity_report)

\* the model's answer to the last check could not be parsed
Unparseable ==
    /\ pc.phase = "ret"
    /\ pc.op = "check_sensitivity"
    /\ IF pc.answer = Null THEN FALSE ELSE pc.answer.shape = "unparseable"

\* C34 (sensitivity parse fallback): when the model's answer cannot be
\* parsed as JSON by any strategy, check_sensitivity returns normally with
\* passed = true, no flags and the summary of the fallback, and the stage
\* is COMPLETED with that report stored.
C34_ParseFallback ==
    Unparseable =>
        /\ pc.outcome = "ok"
        /\ pc.ret.passed
        /\ pc.ret.flags = <<>>
        /\ pc.ret.compliance_summary = "parsing fell back to defaults"
        /\ (state # Null =>
              /\ state.sensitivity_status = COMPLETED
              /\ state.sensitivity_output = pc.ret)

\* an answer that reported a critical flag and passed = false was cut
\* short, and the session holds the default report
C34_Witness ==
    /\ Unparseable
    /\ state # Null
    /\ pc.answer.passed = "false"
    /\ pc.answer.flags = <<"critical">>
    /\ Len(pc.answer.text) > 5
    /\ state.sensitivity_status = COMPLETED
    /\ state.sensitivity_output.passed

\* a Language member is the language a translation key names
Names(language, lang_name) ==
    language.value = lang_name \/ lower(language.name) = lower(lang_name)

\* C35 (one video input per language version): the package that
\* assemble_video_package returns has as many video inputs as the
\* linguistic output has translations, one built from each, and the
\* meta_data.language of each is the language of the translation it was
\* built from.  Both Malay variants get the key "bm", so one replaces the
\* other, and a key that names no member of Language is given
\* Language.ENGLISH and the key "en".
C35_OneInputPerLanguage ==
    (pc.phase = "ret" /\ pc.op = "assemble_video_package" /\ pc.outcome = "ok") =>
        LET translations == pc.args.linguistic_output.translations
            inputs == pc.ret.video_inputs
        IN /\ Cardinality(DOMAIN inputs) = Len(translations)
           /\ \A i \in DOMAIN translations :
                 \E code \in DOMAIN inputs : inputs[code].scenes = translations[i]
           /\ \A code \in DOMAIN inputs :
                 Names(inputs[code].meta_data.language, inputs[code].scenes)

---------------------------------------------------------------------------
(* The research stage and the verification gate (checked under SpecIntake) *)

\* a process_intake invocation returns normally on this step
IntakeSucceeds ==
    /\ pc.phase = "run"
    /\ pc.op = "process_intake"
    /\ pc'.phase = "ret"
    /\ pc'.outcome = "ok"

---------------------------------------------------------------------------
(* Who sets the verified flag (checked under SpecVerify)                  *)

\* the session holds a fact sheet with verified_by_officer = true
Verified(st) ==
    IF st = Null THEN FALSE
    ELSE IF st.fact_sheet = Null THEN FALSE
    ELSE st.fact_sheet.verified_by_officer

\* C37 (only verification sets the verified flag): the fact sheet of the
\* session goes from unverified to verified only on a step of
\* verify_fact_sheet.  chat_refine breaks this: it copies the model's
\* updated_fields into the fact sheet, whatever the fields, so an answer
\* with verified_by_officer in it verifies the fact sheet.
C37_OnlyVerificationVerifies ==
    [][(~Verified(state) /\ Verified(state'))
          => (pc'.phase = "ret" /\ pc'.op = "verify_fact_sheet")]_vars

---------------------------------------------------------------------------
(* Status and output slot of a stage (checked under SpecLifecycle)        *)

\* the operations of the stages that have a status and a slot of their own
SlotStages ==
    {"process_intake", "generate_script", "generate_translations",
     "check_sensitivity", "generate_video_assets", "generate_social_strategy"}

\* C38 (status and output agree): in every state of a session, a director,
\* linguistic, sensitivity, visual/audio or social status of COMPLETED
\* comes with a non-empty output slot of that stage, and an intake_status
\* of COMPLETED with a fact sheet.
C38_StatusAndOutputAgree ==
    IF state = Null THEN TRUE
    ELSE \A op \in SlotStages :
            state[StatusField[op]] = COMPLETED => state[OutputField[op]] # Null

\* a session in which the script, the sensitivity check and the video
\* assets are completed and the translations have failed
C38_Witness ==
    /\ state # Null
    /\ state.director_status = COMPLETED
    /\ state.sensitivity_status = COMPLETED
    /\ state.visual_audio_status = COMPLETED
    /\ state.linguistic_status = FAILED
    /\ state.sensitivity_output # Null

---------------------------------------------------------------------------
(* The clips of a completed visual/audio stage (checked under SpecVA)     *)

\* C39 (a completed visual/audio stage has all its clips): whenever the
\* visual/audio status of the session is COMPLETED, the visual/audio state
\* it holds has exactly one video clip entry for every segment of the
\* script.  generate_veo_clips leaves out the segments whose generation
\* failed and returns normally, and the stage is marked COMPLETED all the
\* same.
C39_CompletedHasAllClips ==
    (IF state = Null THEN FALSE ELSE state.visual_audio_status = COMPLETED) =>
        /\ {e.segment_index : e \in VisualAudio(state, agent).veo_clips} = Segments
        /\ Cardinality(VisualAudio(state, agent).veo_clips) = NumSegments

---------------------------------------------------------------------------
(* Whose outputs a stepwise invocation reuses (checked under SpecReuse)   *)

\* the output of sub-stage k in the agent's state was generated for the
\* video input of project_id
Belongs(a, k, project_id) ==
    CASE k = 1 -> a.obfuscated_story = project_id
      [] k = 2 -> a.veo_script = project_id
      [] k = 3 -> a.character_descriptions = project_id
      [] k = 4 -> \A e \in a.character_ref_images : e.path.dir = project_id
      [] k = 5 -> \A e \in a.clip_ref_images : e.path.dir = project_id
      [] OTHER -> \A e \in a.veo_clips : e.path.dir = project_id

\* C40 (reused sub-stage outputs belong to the request): when
\* generate_video_assets_stepwise returns, every output up to its
\* checkpoint that it did not generate was generated for the same video
\* input, and in the same session: none is reused by the first visual/audio
\* invocation of a session.  The method reuses whatever the agent's state
\* holds: the agent lives as long as the orchestrator, new_session does
\* not reset it, and no output is compared with the request.
C40_ReusedOutputsBelong ==
    [][(pc.phase = "run" /\ pc.op = "generate_video_assets_stepwise"
          /\ pc'.phase = "ret" /\ pc'.outcome = "ok")
        => \A k \in 1 .. Min(StopIndex(pc.args.stop_after), NumStages - 1) :
              k \notin pc'.issued
                  => /\ Belongs(agent', k, pc.args.video_input.project_id)
                     /\ pc.prior # PENDING]_vars

====
